---- MODULE Spec2Model ----
(***************************************************************************)
(* A model of the event bus (src/src/core/EventBus.js) and of the entity   *)
(* store built on it (src/src/core/Entity.js and the EntityManager class   *)
(* of src/src/systems/ProgressionSystem.js).                               *)
(*                                                                         *)
(* The program is single-threaded.  The bus part models the JavaScript     *)
(* call stack explicitly: a processQueue activation and a running handler  *)
(* are frames of `stack`, and user code (the driver when the stack is      *)
(* empty, the body of the running handler otherwise) may call any public   *)
(* method of the bus.                                                      *)
(***************************************************************************)
EXTENDS Integers, Sequences, FiniteSets, TLC

\* ------------------------------------------------------------------ bounds
\* Number of Entity objects constructed in a run.
MaxEntities == 2
\* Longest component-type list passed to getEntitiesWithComponents.
MaxTypes == 2
\* Total number of on(), once() and emit() calls in a run, by the driver and
\* by the handlers together.
MaxCalls == 4
\* Number of objects the caller of one Entity holds.
MaxObjects == 2
\* Number of levels, each with its talent point, the entity gains between
\* two resets.
MaxTalentPoints == 6
\* Largest maxSize of an inventory.
MaxInventorySize == 2
\* Number of nested addItem activations the call stack holds.
MaxCallDepth == 3
\* Highest level at which the driver still hands XP to a party member.
MaxLevel == 2
\* Number of combats started in a run.
MaxCombats == 2
\* Number of tameable creatures.
MaxCreatures == 4
\* Number of taming timers pending at a time.
MaxTamingTimers == 2
\* Number of creatures, counted from the first, that are released or die.
MaxLeaving == 2
\* Number of distinct values Date.now() returns to createParty in a run.
MaxPartyTimes == 2
\* Number of calls of the GameStateManager's methods in a run.
MaxStateCalls == 4
\* Length of a run of one combat, in ms.
MaxTime == 5000

\* ------------------------------------------------------------ input values
EventNames == {"A", "B"}
Fns == {"f"}
Contexts == {"null", "ctx"}
Tags == {"player", "enemy"}
\* the component type callers attach and remove, and the types that
\* ProgressionSystem attaches
CompTypes == {"health"}
ProgressionComps == {"progression", "power", "health", "talentBonuses"}
AllComps == CompTypes \cup ProgressionComps

VARIABLES
    \* EventBus fields (EventBus.js:7-9)
    events, eventQueue, isProcessing,
    \* the call stack: processQueue activations and running handlers
    stack,
    \* the unsubscribe closures returned by on(), in creation order
    unsubs,
    \* history: number of emit() and on()/once() calls made so far
    nEmits, nRegs,
    \* history of the queue entries, by payload: how often each was shifted,
    \* which ones clear() threw away, and which ones had a handler throw since
    \* processQueue was entered last
    shifts, dropped, threw,
    \* history of the dispatch in progress (or just finished): the handler
    \* objects subscribed when its entry was shifted, those invoked since
    registered, invoked,
    \* history: the registrations whose onceWrapper has been invoked
    fired,
    \* history: the payload of the emit() call that entered processQueue last
    root,
    \* the Entity objects constructed so far, by id (Entity.js:6-12)
    ents,
    \* EntityManager fields (ProgressionSystem.js:485-487); entities is the key
    \* set of the primary map, whose value for id is the Entity object id
    entities, entitiesByTag, entitiesByComponent,
    \* EntityManager.entitiesToDestroy (ProgressionSystem.js:488)
    entitiesToDestroy,
    \* the payload of each emit() made for the manager, by number of the call:
    \* the entity (or entity id) the event carries and, for entity:created,
    \* the tags and components the entity was created with
    carried,
    \* one Entity object with the data of its components, and the objects
    \* its callers hold (Entity.js)
    entity, objs,
    \* the progression component of one entity and the outcome of the last
    \* spendTalentPoint call (ProgressionSystem.js:183-247)
    progression, talentCall,
    \* the inventory component of one entity, the item definitions and the
    \* outcome of the last addItem call (InventorySystem.js:71-135)
    inventory, itemDefinitions, itemCall,
    \* the processDestructions() call in progress, or the last one made
    sweep,
    \* history: EntityManager.destroy() has been called
    managerDestroyed,
    \* the progression component of each member of one party, and the queue
    \* and the isProcessing flag of the bus carrying their XP events
    progressions, xpQueue, xpProcessing,
    \* CombatSystem.activeCombats and combatPairs (CombatSystem.js:11-12); a
    \* combatData object is an element of combats, and the maps hold its
    \* index; activeKeys is the keys of activeCombats in the order the Map
    \* iterates them, the order of insertion
    activeCombats, activeKeys, combatPairs, combats,
    \* the start-delay timers set by startCombat that have not fired yet
    timers,
    \* what the last call into the CombatSystem emitted
    combatCall,
    \* PetSystem.petOwnership and petData (InventorySystem.js:463-464; of a
    \* petInfo the ownerId is kept), the components and tags of the
    \* creatures, the callbacks of the taming timers that have not run yet,
    \* in the order they were set, and what the last call into the PetSystem
    \* emitted
    petOwnership, petData, creatures, tamingTimers, petCall,
    \* PartySystem.parties and entityParties (part_001:26-27), the partyRole
    \* and partyAI components of the entities, the value of Date.now() at the
    \* last createParty and what the last call into the PartySystem emitted
    parties, entityParties, partyComps, partyClock, partyCall,
    \* the equipmentBonuses component of the entity that has the inventory
    equipmentBonuses,
    \* GameStateManager fields (GameStateManager.js:9-13), the calls of its
    \* async methods made so far, each with the await it is suspended at, and
    \* what the last step emitted
    currentState, previousState, transitioning, stateStack, gsmTasks, gsmCall,
    \* the time since the run began, in ms, and the combatData of one combat
    \* with the times the CombatSystem reads from Date.now()
    clock, duel

busVars == <<events, eventQueue, isProcessing, stack, unsubs,
             nEmits, nRegs, shifts, dropped, threw, registered, invoked, fired,
             root>>

hist == <<shifts, dropped, threw, registered, invoked, fired, root>>

emVars == <<ents, entities, entitiesByTag, entitiesByComponent>>

\* the game loop's call into the manager
loopVars == <<sweep, managerDestroyed>>

worldVars == <<entitiesToDestroy, carried, loopVars>>

objVars == <<entity, objs>>

talentVars == <<progression, talentCall>>

invVars == <<inventory, itemDefinitions, itemCall>>

\* the variables outside the event bus and the entity store
\* the variables of the systems modelled further below
partyVars == <<progressions, xpQueue, xpProcessing>>

combatVars == <<activeCombats, activeKeys, combatPairs, combats, timers,
               combatCall>>

petVars == <<petOwnership, petData, creatures, tamingTimers, petCall>>

groupVars == <<parties, entityParties, partyComps, partyClock, partyCall>>

equipVars == <<equipmentBonuses>>

gsmVars == <<currentState, previousState, transitioning, stateStack, gsmTasks,
             gsmCall>>

duelVars == <<clock, duel>>

lastVars == <<petVars, groupVars, equipVars, gsmVars, duelVars>>

laterVars == <<partyVars, combatVars, lastVars>>

\* the variables of the systems up to the CombatSystem
oldVars == <<busVars, emVars, worldVars, objVars, talentVars, invVars,
             partyVars, combatVars>>

restVars == <<worldVars, objVars, talentVars, invVars, laterVars>>

vars == <<busVars, emVars, restVars>>

\* what the actions of one of the last systems leave alone
notPet == <<oldVars, groupVars, equipVars, gsmVars, duelVars>>

notGroup == <<oldVars, petVars, equipVars, gsmVars, duelVars>>

notGsm == <<oldVars, petVars, groupVars, equipVars, duelVars>>

notDuel == <<oldVars, petVars, groupVars, equipVars, gsmVars>>

\* what equipItem and unequipItem leave alone, the inventory apart
oldEquipRest == <<busVars, emVars, worldVars, objVars, talentVars, partyVars,
                  combatVars, petVars, groupVars, gsmVars, duelVars>>

\* --------------------------------------------------------------- helpers
\* A callback is a function value: a user function fn (wrap = 0) or the
\* onceWrapper closure created by the wrap-th registration around fn.
PlainCallback(fn) == [fn |-> fn, wrap |-> 0]

OnceWrapper(fn, k) == [fn |-> fn, wrap |-> k]

\* const handler = { callback, context }; reg is the identity of that object.
HandlerObj(cb, ctx, k) == [callback |-> cb, context |-> ctx, reg |-> k]

NoHandler == HandlerObj(PlainCallback("none"), "null", 0)

NoEvents == [e \in {} |-> <<>>]

\* this.events.get(eventName).push(handler), creating the list when absent
PushHandlerFront(evts, e, h) ==
    [x \in DOMAIN evts \cup {e} |->
        IF x = e
        THEN (IF e \in DOMAIN evts THEN <<h>> \o evts[e] ELSE <<h>>)
        ELSE evts[x]]

PushHandler(evts, e, h) ==
    [x \in DOMAIN evts \cup {e} |->
        IF x = e
        THEN (IF e \in DOMAIN evts THEN Append(evts[e], h) ELSE <<h>>)
        ELSE evts[x]]

\* handlers.findIndex(h => h.callback === callback && h.context === context),
\* 1-based, 0 when there is none
FindIndex(hs, cb, ctx) ==
    LET hits == {i \in 1..Len(hs) : hs[i].callback = cb /\ hs[i].context = ctx}
    IN  IF hits = {} THEN 0 ELSE CHOOSE i \in hits : \A j \in hits : i <= j

\* handlers.splice(index, 1)
Splice(hs, i) == [j \in 1..(Len(hs) - 1) |-> IF j < i THEN hs[j] ELSE hs[j + 1]]

\* EventBus.off
OffOp(evts, e, cb, ctx) ==
    IF e \notin DOMAIN evts THEN evts
    ELSE LET index == FindIndex(evts[e], cb, ctx)
             hs == IF index # 0 THEN Splice(evts[e], index) ELSE evts[e]
         IN  IF Len(hs) = 0
             THEN [x \in DOMAIN evts \ {e} |-> evts[x]]
             ELSE [evts EXCEPT ![e] = hs]

\* if (!this.isProcessing) this.processQueue()
ShouldProcessAlways(processing) == TRUE

ShouldProcess(processing) == ~processing

\* this.eventQueue.shift(): the entry taken and the queue left
ShiftLast(q) == [entry |-> q[Len(q)], rest |-> SubSeq(q, 1, Len(q) - 1)]

Shift(q) == [entry |-> Head(q), rest |-> Tail(q)]

\* while (this.eventQueue.length > 0)
QueueHasMoreThanOne(q) == Len(q) > 1

QueueNonEmpty(q) == Len(q) > 0

\* The list handlers.forEach walks: the copy made when the entry was shifted.
IteratedLive(frame, evts) ==
    IF frame.eventName \in DOMAIN evts THEN evts[frame.eventName] ELSE <<>>

Iterated(frame, evts) == frame.handlers

\* Frames of the call stack.
DrainFrame(e, a, hs, i) ==
    [kind |-> "processQueue", eventName |-> e, args |-> a, handlers |-> hs,
     idx |-> i, handler |-> NoHandler, called |-> FALSE]

HandlerFrame(e, a, h) ==
    [kind |-> "handler", eventName |-> e, args |-> a, handlers |-> <<>>,
     idx |-> 0, handler |-> h, called |-> FALSE]

Top == stack[Len(stack)]

Pop(stk) == SubSeq(stk, 1, Len(stk) - 1)

\* forEach moves to the next element of the list it walks
Advance(stk) == [stk EXCEPT ![Len(stk)].idx = @ + 1]

\* Where a throw from the running handler lands: the catch at EventBus.js:96
\* inside the forEach callback, after which forEach goes on.
UnwindUncaught(stk) == <<>>

Unwind(stk) == Advance(Pop(stk))

\* User code is running: the driver, or the body of the handler on top.
InUser ==
    \/ stack = <<>>
    \/ /\ stack # <<>>
       /\ Top.kind = "handler"

\* The stack after user code has made a call: a handler frame remembers
\* that its body has called the bus.
Called(stk) ==
    IF stk = <<>> THEN stk ELSE [stk EXCEPT ![Len(stk)].called = TRUE]

\* No call is in progress: the driver is running.
Idle == stack = <<>>

AtLoopHead ==
    /\ stack # <<>>
    /\ Top.kind = "processQueue"
    /\ Top.idx > Len(Iterated(Top, events))

\* ------------------------------------------------------------------ Init
NoIndex == [k \in {} |-> {}]

\* EntityManager constructor
EMInit ==
    /\ ents = <<>>
    /\ entities = {}
    /\ entitiesByTag = NoIndex
    /\ entitiesByComponent = NoIndex

\* EventBus constructor
BusInit ==
    /\ events = NoEvents
    /\ eventQueue = <<>>
    /\ isProcessing = FALSE
    /\ stack = <<>>
    /\ unsubs = <<>>
    /\ nEmits = 0
    /\ nRegs = 0
    /\ shifts = [a \in 1..MaxCalls |-> 0]
    /\ dropped = {}
    /\ threw = {}
    /\ registered = <<>>
    /\ invoked = <<>>
    /\ fired = {}
    /\ root = 0

\* EntityManager constructor, continued: nothing is scheduled, and no event
\* has been emitted for the manager
\* No processDestructions() call is in progress.  A call in progress knows
\* whether update() made it, which pending ids its forEach has visited, and
\* (as history) how many emit() calls had been made when it began.
NoSweep == [active |-> FALSE, update |-> FALSE, visited |-> {}, since |-> 0]

WorldVarsInit ==
    /\ entitiesToDestroy = {}
    /\ carried = <<>>
    /\ sweep = NoSweep
    /\ managerDestroyed = FALSE

\* The component map of a new Entity: new Map()
NoComponents == [t \in {} |-> 0]

\* new Entity(id): this.id = id || this.generateId(); "null" stands for the
\* absent argument and "generated" for the string generateId() returns
NewEntityWithId(id) ==
    [id |-> IF id = "null" THEN "generated" ELSE id,
     components |-> NoComponents, tags |-> <<>>, active |-> TRUE,
     destroyed |-> FALSE]

ObjInit ==
    /\ entity = NewEntityWithId("null")
    /\ objs = <<>>

\* No spendTalentPoint call has been made yet.
NoTalentCall == [result |-> "none", emitted |-> <<>>]

\* The progression component initializeProgression attaches
\* (ProgressionSystem.js:103-115), as far as spendTalentPoint reads it
TalentInit ==
    /\ progression = [level |-> 1, talentPoints |-> 0, talents |-> <<>>]
    /\ talentCall = NoTalentCall

\* No addItem call has been made yet.
NoItemCall == [result |-> "none", emitted |-> <<>>]

\* InventorySystem constructor: this.itemDefinitions = new Map(); the
\* inventory component is an empty one of the smallest capacity
InvInit ==
    /\ inventory = [items |-> <<>>, maxSize |-> 1]
    /\ itemDefinitions = <<>>
    /\ itemCall = NoItemCall

\* ProgressionSystem.config (ProgressionSystem.js:11-18)
BaseXPRequired == 100

XpScalingFactor == 2

StatPointsPerLevel == 3

TalentPointsPerLevel == 1

\* ProgressionSystem.calculateXPRequired:
\* Math.floor(baseXPRequired * Math.pow(level, xpScalingFactor))
CalculateXPRequired(level) == BaseXPRequired * (level ^ XpScalingFactor)

\* party.members of the one party, in joining order
PartyMembers == <<"hero", "ally">>

\* The progression component of initializeProgression and resetProgression
\* (ProgressionSystem.js:103-115, 452-462)
NewProgression ==
    [level |-> 1, experience |-> 0,
     experienceToNext |-> CalculateXPRequired(1),
     statPoints |-> 0, talentPoints |-> 0, talents |-> <<>>,
     stats |-> [strength |-> 1, vitality |-> 1, agility |-> 1]]

\* Each member has the progression component initializeProgression
\* attaches; the bus is idle
PartyInit ==
    /\ progressions =
           [m \in {PartyMembers[i] : i \in 1..Len(PartyMembers)} |->
               NewProgression]
    /\ xpQueue = <<>>
    /\ xpProcessing = FALSE

\* The empty Map
NoMap == [k \in {} |-> 0]

\* CombatSystem constructor
CombatInit ==
    /\ activeCombats = NoMap
    /\ activeKeys = <<>>
    /\ combatPairs = NoMap
    /\ combats = <<>>
    /\ timers = {}
    /\ combatCall = [emitted |-> <<>>]

\* The systems modelled further below, after construction
\* PetSystem.config.maxPetsPerPlayer
MaxPetsPerPlayer == 3

\* PetSystem constructor, and the wild creatures the world holds: each has
\* a petData component with isTameable
PetInit ==
    /\ petOwnership = NoMap
    /\ petData = NoMap
    /\ creatures = [c \in 1..MaxCreatures |->
                        [components |-> {"petData"}, tags |-> {"enemy"}]]
    /\ tamingTimers = <<>>
    /\ petCall = [emitted |-> <<>>]

\* PartySystem.config.maxPartySize
MaxPartySize == 4

\* no partyRole component (role "none") and no partyAI component
NoPartyComps ==
    [partyRole |-> [partyId |-> 0, role |-> "none"], partyAI |-> FALSE]

\* PartySystem constructor; the manager holds an entity tagged player (1)
\* and MaxEntities others
GroupInit ==
    /\ parties = NoMap
    /\ entityParties = NoMap
    /\ partyComps = [e \in 1..(MaxEntities + 1) |-> NoPartyComps]
    /\ partyClock = 1
    /\ partyCall = [emitted |-> <<>>]

\* The entity has no equipmentBonuses component
EquipInit == equipmentBonuses = [present |-> FALSE, power |-> 0]

\* GameStateManager constructor
GsmInit ==
    /\ currentState = "null"
    /\ previousState = "null"
    /\ transitioning = FALSE
    /\ stateStack = <<>>
    /\ gsmTasks = <<>>
    /\ gsmCall = [emitted |-> <<>>]

\* No combat has been started: activeCombats is empty, and the attacker and
\* the defender are in the EntityManager
DuelInit ==
    /\ clock = 0
    /\ duel = [state |-> "none", result |-> "null", tier |-> 0, startTime |-> 0,
               endTime |-> 0, tugPosition |-> 0, timerDue |-> 0,
               timerPending |-> FALSE, activeSince |-> 0, decidedAt |-> 0,
               inActiveCombats |-> FALSE,
               entities |-> {"attacker", "defender"}]

LastInit == PetInit /\ GroupInit /\ EquipInit /\ GsmInit /\ DuelInit

LaterInit == PartyInit /\ CombatInit /\ LastInit

Init ==
    /\ BusInit /\ EMInit /\ WorldVarsInit /\ ObjInit /\ TalentInit /\ InvInit
    /\ LaterInit

\* --------------------------------------------------------------- actions
\* EventBus.on(eventName, callback, context)
On(e, fn, ctx) ==
    /\ InUser
    /\ nEmits + nRegs < MaxCalls
    /\ nRegs' = nRegs + 1
    /\ events' = PushHandler(events, e,
                     HandlerObj(PlainCallback(fn), ctx, nRegs + 1))
    /\ unsubs' = Append(unsubs,
                     [eventName |-> e, callback |-> PlainCallback(fn),
                      context |-> ctx, reg |-> nRegs + 1])
    /\ stack' = Called(stack)
    /\ UNCHANGED <<eventQueue, isProcessing, nEmits, hist>>

\* EventBus.once(eventName, callback, context)
Once(e, fn, ctx) ==
    /\ InUser
    /\ nEmits + nRegs < MaxCalls
    /\ nRegs' = nRegs + 1
    /\ events' = PushHandler(events, e,
                     HandlerObj(OnceWrapper(fn, nRegs + 1), ctx, nRegs + 1))
    /\ stack' = Called(stack)
    /\ UNCHANGED <<eventQueue, isProcessing, unsubs, nEmits, hist>>

\* EventBus.off(eventName, callback, context), called by user code
Off(e, fn, ctx) ==
    /\ InUser
    /\ events' = OffOp(events, e, PlainCallback(fn), ctx)
    /\ stack' = Called(stack)
    /\ UNCHANGED <<eventQueue, isProcessing, unsubs, nEmits, nRegs, hist>>

\* The function returned by the r-th on() call: () => this.off(...)
Unsubscribe(r) ==
    /\ InUser
    /\ r \in 1..Len(unsubs)
    /\ events' = OffOp(events, unsubs[r].eventName, unsubs[r].callback,
                       unsubs[r].context)
    /\ stack' = Called(stack)
    /\ UNCHANGED <<eventQueue, isProcessing, unsubs, nEmits, nRegs, hist>>

\* EventBus.emit(eventName, ...args); args is the number of the call.  When
\* no drain is in progress the call enters processQueue, whose first
\* statement sets isProcessing.
Emit(e) ==
    /\ InUser
    /\ nEmits + nRegs < MaxCalls
    /\ nEmits' = nEmits + 1
    /\ eventQueue' = Append(eventQueue, [eventName |-> e, args |-> nEmits + 1])
    /\ IF ShouldProcess(isProcessing)
       THEN /\ isProcessing' = TRUE
            /\ stack' = Append(Called(stack), DrainFrame("none", 0, <<>>, 1))
            /\ root' = nEmits + 1
            /\ threw' = {}
       ELSE /\ isProcessing' = isProcessing
            /\ stack' = Called(stack)
            /\ UNCHANGED <<root, threw>>
    /\ UNCHANGED <<events, unsubs, nRegs, shifts, dropped, registered, invoked,
                   fired>>

\* EventBus.clear()
ClearSubscriptions ==
    /\ UNCHANGED <<emVars, restVars>>
    /\ InUser
    /\ events' = NoEvents
    /\ dropped' = dropped \cup {eventQueue[i].args : i \in 1..Len(eventQueue)}
    /\ stack' = Called(stack)
    /\ UNCHANGED <<eventQueue, isProcessing, unsubs, nEmits, nRegs, shifts, threw,
                   registered, invoked, fired, root>>

Clear ==
    /\ UNCHANGED <<emVars, restVars>>
    /\ InUser
    /\ events' = NoEvents
    /\ eventQueue' = <<>>
    /\ dropped' = dropped \cup {eventQueue[i].args : i \in 1..Len(eventQueue)}
    /\ stack' = Called(stack)
    /\ UNCHANGED <<isProcessing, unsubs, nEmits, nRegs, shifts, threw, registered,
                   invoked, fired, root>>

\* processQueue: one turn of the while loop up to the start of forEach
ProcessQueueShift ==
    /\ UNCHANGED <<emVars, restVars>>
    /\ AtLoopHead
    /\ QueueNonEmpty(eventQueue)
    /\ LET s == Shift(eventQueue)
           e == s.entry.eventName
           hs == IF e \in DOMAIN events THEN events[e] ELSE <<>>
       IN  /\ eventQueue' = s.rest
           /\ stack' = [stack EXCEPT ![Len(stack)] =
                            DrainFrame(e, s.entry.args, hs, 1)]
           /\ shifts' = [shifts EXCEPT ![s.entry.args] = @ + 1]
           /\ registered' = [i \in 1..Len(hs) |-> hs[i].reg]
           /\ invoked' = <<>>
    /\ UNCHANGED <<events, isProcessing, unsubs, nEmits, nRegs, dropped, threw,
                   fired, root>>

\* forEach calls handler.callback.apply(handler.context, args)
InvokeHandler ==
    /\ UNCHANGED <<emVars, restVars>>
    /\ stack # <<>>
    /\ Top.kind = "processQueue"
    /\ Top.idx <= Len(Iterated(Top, events))
    /\ LET h == Iterated(Top, events)[Top.idx]
       IN  /\ stack' = Append(stack, HandlerFrame(Top.eventName, Top.args, h))
           /\ invoked' = Append(invoked, h.reg)
           /\ fired' = IF h.callback.wrap # 0 THEN fired \cup {h.reg} ELSE fired
    /\ UNCHANGED <<events, eventQueue, isProcessing, unsubs, nEmits, nRegs,
                   shifts, dropped, threw, registered, root>>

\* The running callback returns.  A onceWrapper then runs its second
\* statement, this.off(eventName, onceWrapper, context), and returns.
HandlerReturn ==
    /\ UNCHANGED <<emVars, restVars>>
    /\ stack # <<>>
    /\ Top.kind = "handler"
    /\ events' = IF Top.handler.callback.wrap # 0
                 THEN OffOp(events, Top.eventName, Top.handler.callback,
                            Top.handler.context)
                 ELSE events
    /\ stack' = Advance(Pop(stack))
    /\ UNCHANGED <<eventQueue, isProcessing, unsubs, nEmits, nRegs, hist>>

\* The running callback throws.  Inside a onceWrapper the throw leaves the
\* wrapper before its this.off(...) statement.
HandlerThrow ==
    /\ UNCHANGED <<emVars, restVars>>
    /\ stack # <<>>
    /\ Top.kind = "handler"
    /\ stack' = Unwind(stack)
    /\ threw' = threw \cup {Top.args}
    /\ UNCHANGED <<events, eventQueue, isProcessing, unsubs, nEmits, nRegs,
                   shifts, dropped, registered, invoked, fired, root>>

\* processQueue: the while loop ends, this.isProcessing = false, return
ProcessQueueExit ==
    /\ UNCHANGED <<emVars, restVars>>
    /\ AtLoopHead
    /\ ~QueueNonEmpty(eventQueue)
    /\ isProcessing' = FALSE
    /\ stack' = Pop(stack)
    /\ registered' = <<>>
    /\ invoked' = <<>>
    /\ UNCHANGED <<events, eventQueue, unsubs, nEmits, nRegs, shifts, dropped,
                   threw, fired, root>>

CallOn ==
    /\ \E e \in EventNames, fn \in Fns, ctx \in Contexts : On(e, fn, ctx)
    /\ UNCHANGED <<emVars, restVars>>

CallOnce ==
    /\ \E e \in EventNames, fn \in Fns, ctx \in Contexts : Once(e, fn, ctx)
    /\ UNCHANGED <<emVars, restVars>>

CallOff ==
    /\ \E e \in EventNames, fn \in Fns, ctx \in Contexts : Off(e, fn, ctx)
    /\ UNCHANGED <<emVars, restVars>>

CallUnsubscribe ==
    /\ \E r \in 1..MaxCalls : Unsubscribe(r)
    /\ UNCHANGED <<emVars, restVars>>

CallEmit ==
    /\ \E e \in EventNames : Emit(e)
    /\ UNCHANGED <<emVars, restVars>>

Next ==
    \/ CallOn
    \/ CallOnce
    \/ CallUnsubscribe
    \/ CallOff
    \/ CallEmit
    \/ Clear
    \/ ProcessQueueShift
    \/ InvokeHandler
    \/ HandlerReturn
    \/ HandlerThrow
    \/ ProcessQueueExit

Spec == Init /\ [][Next]_vars

\* ------------------------------------------------------ EventBus: clear
\* The configuration of Spec after the driver's first call, on('A', f): the
\* subscription exists (its handler object has identity 0) and the history
\* counts the calls made from here on.  User code subscribes, emits and
\* clears.
ClearInit ==
    /\ events = PushHandler(NoEvents, "A", HandlerObj(PlainCallback("f"), "null", 0))
    /\ eventQueue = <<>>
    /\ isProcessing = FALSE
    /\ stack = <<>>
    /\ unsubs = <<>>
    /\ nEmits = 0
    /\ nRegs = 0
    /\ shifts = [a \in 1..MaxCalls |-> 0]
    /\ dropped = {}
    /\ threw = {}
    /\ registered = <<>>
    /\ invoked = <<>>
    /\ fired = {}
    /\ root = 0
    /\ EMInit /\ WorldVarsInit /\ ObjInit /\ TalentInit /\ InvInit /\ LaterInit

ClearNext ==
    \/ CallOn
    \/ CallEmit
    \/ Clear
    \/ ProcessQueueShift
    \/ InvokeHandler
    \/ HandlerReturn
    \/ ProcessQueueExit

ClearSpec == ClearInit /\ [][ClearNext]_vars

\* ============================================================ EntityManager
\* The configuration is the one of index-branch-test.js:44-49: an EventBus,
\* an EntityManager and a ProgressionSystem.  The driver calls the manager
\* and the entities while the bus is idle, so an emit made by the manager
\* is dispatched before the call returns.

\* new Entity(): components, tags, active, destroyed (Entity.js:6-12)
NewEntityObj == [components |-> {}, tags |-> {}, active |-> TRUE,
                 destroyed |-> FALSE]

\* Entity.addComponent: refused on a destroyed entity (Entity.js:26-34)
EntityAddComponent(ent, c) ==
    IF ent.destroyed THEN ent
    ELSE [ent EXCEPT !.components = @ \cup {c}]

\* Entity.removeComponent (Entity.js:64-67)
EntityRemoveComponent(ent, c) == [ent EXCEPT !.components = @ \ {c}]

\* Entity.addTag (Entity.js:73-76)
EntityAddTag(ent, t) == [ent EXCEPT !.tags = @ \cup {t}]

\* Entity.removeTag (Entity.js:82-85)
EntityRemoveTag(ent, t) == [ent EXCEPT !.tags = @ \ {t}]

\* Entity.setActive (Entity.js:99-102)
EntitySetActive(ent, b) == [ent EXCEPT !.active = b]

\* Entity.destroy (Entity.js:107-110)
EntityDestroy(ent) == [ent EXCEPT !.destroyed = TRUE, !.active = FALSE]

\* addEntity's loops: id joins the bucket of every key, a bucket being
\* created when absent
IndexAddNothing(index, keys, id) == index

IndexAdd(index, keys, id) ==
    [k \in DOMAIN index \cup keys |->
        (IF k \in DOMAIN index THEN index[k] ELSE {})
        \cup (IF k \in keys THEN {id} ELSE {})]

\* removeEntity's loops: id leaves the bucket of every key that has one, and
\* a bucket left empty is deleted
IndexRemove(index, keys, id) ==
    LET touched == keys \cap DOMAIN index
        kept == {k \in DOMAIN index : k \notin touched \/ index[k] \ {id} # {}}
    IN  [k \in kept |-> IF k \in touched THEN index[k] \ {id} ELSE index[k]]

\* ProgressionSystem.updateDerivedStats followed by applyTalentEffects: with a
\* progression component, power, health and talentBonuses are added when
\* missing
UpdateDerivedStats(ent) ==
    IF "progression" \notin ent.components THEN ent
    ELSE EntityAddComponent(EntityAddComponent(EntityAddComponent(ent,
             "power"), "health"), "talentBonuses")

\* ProgressionSystem.initializeProgression, the entity:created handler
InitializeProgression(ent) ==
    IF "player" \notin ent.tags /\ "npc" \notin ent.tags THEN ent
    ELSE UpdateDerivedStats(
             IF "progression" \notin ent.components
             THEN EntityAddComponent(ent, "progression")
             ELSE ent)

\* EntityManager.getEntitiesByTag, as the set of ids of the entities returned
GetEntitiesByTag(t) ==
    IF t \notin DOMAIN entitiesByTag THEN {}
    ELSE {id \in entitiesByTag[t] : id \in entities /\ ents[id].active}

\* The forEach of getEntitiesWithComponents after the first i types; entityIds
\* is null until a type has been seen
RECURSIVE WalkTypes(_, _)
WalkTypes(types, i) ==
    IF i = 0 THEN [null |-> TRUE, ids |-> {}]
    ELSE LET acc == WalkTypes(types, i - 1)
             ct == types[i]
         IN  IF ct \notin DOMAIN entitiesByComponent
             THEN [null |-> FALSE, ids |-> {}]
             ELSE IF acc.null
                  THEN [null |-> FALSE, ids |-> entitiesByComponent[ct]]
                  ELSE [null |-> FALSE,
                        ids |-> acc.ids \cap entitiesByComponent[ct]]

\* EntityManager.getEntitiesWithComponents, as the set of ids returned
GetEntitiesWithComponentsUnfiltered(types) ==
    IF Len(types) = 0 THEN {}
    ELSE LET acc == WalkTypes(types, Len(types))
         IN  IF acc.null THEN {}
             ELSE {id \in acc.ids : id \in entities}

GetEntitiesWithComponents(types) ==
    IF Len(types) = 0 THEN {}
    ELSE LET acc == WalkTypes(types, Len(types))
         IN  IF acc.null THEN {}
             ELSE {id \in acc.ids : id \in entities /\ ents[id].active}

\* new Entity() by code outside the manager (as index.js:72-77 does)
NewEntity ==
    /\ Len(ents) < MaxEntities
    /\ ents' = Append(ents, NewEntityObj)
    /\ UNCHANGED <<entities, entitiesByTag, entitiesByComponent, busVars, restVars>>

\* EntityManager.addEntity(entity)
AddEntity(id) ==
    /\ id \in 1..Len(ents)
    /\ entities' = entities \cup {id}
    /\ entitiesByTag' = IndexAdd(entitiesByTag, ents[id].tags, id)
    /\ entitiesByComponent' =
           IndexAdd(entitiesByComponent, ents[id].components, id)
    /\ UNCHANGED <<ents, busVars, restVars>>

\* EntityManager.createEntity(components, tags): the entity is built and
\* registered, then entity:created is emitted and, the bus being idle,
\* dispatched to initializeProgression before createEntity returns.
CreateEntity(comps, tags) ==
    /\ Len(ents) < MaxEntities
    /\ LET id == Len(ents) + 1
           built == [NewEntityObj EXCEPT !.components = comps, !.tags = tags]
       IN  /\ entities' = entities \cup {id}
           /\ entitiesByTag' = IndexAdd(entitiesByTag, built.tags, id)
           /\ entitiesByComponent' =
                  IndexAdd(entitiesByComponent, built.components, id)
           /\ ents' = Append(ents, InitializeProgression(built))
    /\ UNCHANGED <<busVars, restVars>>

\* EntityManager.removeEntity(entityId); entity:destroyed has no subscriber
RemoveEntity(id) ==
    /\ IF id \notin entities
       THEN UNCHANGED emVars
       ELSE /\ entitiesByTag' = IndexRemove(entitiesByTag, ents[id].tags, id)
            /\ entitiesByComponent' =
                   IndexRemove(entitiesByComponent, ents[id].components, id)
            /\ entities' = entities \ {id}
            /\ ents' = [ents EXCEPT ![id] = EntityDestroy(@)]
    /\ UNCHANGED <<busVars, restVars>>

\* entity.addTag(tag), entity.removeTag(tag), entity.addComponent(type, data),
\* entity.removeComponent(type), entity.setActive(active) on any entity
AddTag(id, t) ==
    /\ id \in 1..Len(ents)
    /\ ents' = [ents EXCEPT ![id] = EntityAddTag(@, t)]
    /\ UNCHANGED <<entities, entitiesByTag, entitiesByComponent, busVars, restVars>>

RemoveTag(id, t) ==
    /\ id \in 1..Len(ents)
    /\ ents' = [ents EXCEPT ![id] = EntityRemoveTag(@, t)]
    /\ UNCHANGED <<entities, entitiesByTag, entitiesByComponent, busVars, restVars>>

AddComponent(id, c) ==
    /\ id \in 1..Len(ents)
    /\ ents' = [ents EXCEPT ![id] = EntityAddComponent(@, c)]
    /\ UNCHANGED <<entities, entitiesByTag, entitiesByComponent, busVars, restVars>>

RemoveComponent(id, c) ==
    /\ id \in 1..Len(ents)
    /\ ents' = [ents EXCEPT ![id] = EntityRemoveComponent(@, c)]
    /\ UNCHANGED <<entities, entitiesByTag, entitiesByComponent, busVars, restVars>>

SetActive(id, b) ==
    /\ id \in 1..Len(ents)
    /\ ents' = [ents EXCEPT ![id] = EntitySetActive(@, b)]
    /\ UNCHANGED <<entities, entitiesByTag, entitiesByComponent, busVars, restVars>>

CallAddEntity == \E id \in 1..MaxEntities : AddEntity(id)

CallCreateEntity ==
    \E comps \in SUBSET CompTypes, tags \in SUBSET Tags : CreateEntity(comps, tags)

CallRemoveEntity == \E id \in 1..MaxEntities : RemoveEntity(id)

CallAddTag == \E id \in 1..MaxEntities, t \in Tags : AddTag(id, t)

CallRemoveTag == \E id \in 1..MaxEntities, t \in Tags : RemoveTag(id, t)

CallAddComponent ==
    \E id \in 1..MaxEntities, c \in CompTypes : AddComponent(id, c)

CallRemoveComponent ==
    \E id \in 1..MaxEntities, c \in CompTypes : RemoveComponent(id, c)

CallSetActive == \E id \in 1..MaxEntities, b \in BOOLEAN : SetActive(id, b)

EMNext ==
    \/ NewEntity
    \/ CallAddEntity
    \/ CallCreateEntity
    \/ CallRemoveEntity
    \/ CallAddTag
    \/ CallRemoveTag
    \/ CallAddComponent
    \/ CallRemoveComponent
    \/ CallSetActive

EMSpec == Init /\ [][EMNext]_vars

\* ================================================ EntityManager on the bus
\* The configuration is an EventBus and an EntityManager, whose constructor
\* has subscribed its entity:destroy listener.  User code (the driver, or the
\* body of a running entity:created observer) creates entities, schedules
\* destructions and emits entity:destroy; the game loop calls
\* processDestructions and update while the bus is idle.  No other system is
\* subscribed: entity:destroyed and entities:update reach no handler, so
\* their emission leaves the bus as it found it.  An entity's id is its
\* index in ents.

\* this.eventBus.on('entity:destroy', (data) => {...}): the handler object
ManagerListener == HandlerObj(PlainCallback("scheduleDestroy"), "null", 1)

\* The state after new EventBus() and new EntityManager(eventBus)
WorldInit ==
    /\ events = PushHandler(NoEvents, "entity:destroy", ManagerListener)
    /\ eventQueue = <<>>
    /\ isProcessing = FALSE
    /\ stack = <<>>
    /\ unsubs = <<>>
    /\ nEmits = 0
    /\ nRegs = 1
    /\ shifts = [a \in 1..MaxCalls |-> 0]
    /\ dropped = {}
    /\ threw = {}
    /\ registered = <<>>
    /\ invoked = <<>>
    /\ fired = {}
    /\ root = 0
    /\ EMInit /\ WorldVarsInit /\ ObjInit /\ TalentInit /\ InvInit /\ LaterInit

\* The fields of the EntityManager as one value
Manager ==
    [ents |-> ents, entities |-> entities, entitiesByTag |-> entitiesByTag,
     entitiesByComponent |-> entitiesByComponent,
     entitiesToDestroy |-> entitiesToDestroy]

SetManager(em) ==
    /\ ents' = em.ents
    /\ entities' = em.entities
    /\ entitiesByTag' = em.entitiesByTag
    /\ entitiesByComponent' = em.entitiesByComponent
    /\ entitiesToDestroy' = em.entitiesToDestroy

\* EntityManager.getEntity: the id of the entity returned, 0 for null
GetEntity(id) == IF id \in entities THEN id ELSE 0

\* EntityManager.removeEntity on the manager's fields
RemoveEntityKeepsMap(em, id) ==
    IF id \notin em.entities THEN em
    ELSE [em EXCEPT
             !.entitiesByTag = IndexRemove(@, em.ents[id].tags, id),
             !.entitiesByComponent =
                 IndexRemove(@, em.ents[id].components, id),
             !.ents = [em.ents EXCEPT ![id] = EntityDestroy(em.ents[id])]]

RemoveEntityFrom(em, id) ==
    IF id \notin em.entities THEN em
    ELSE [em EXCEPT
             !.entitiesByTag = IndexRemove(@, em.ents[id].tags, id),
             !.entitiesByComponent =
                 IndexRemove(@, em.ents[id].components, id),
             !.entities = @ \ {id},
             !.ents = [em.ents EXCEPT ![id] = EntityDestroy(em.ents[id])]]

\* EntityManager.scheduleDestroy on the manager's fields
ScheduleDestroyEager(em, id) ==
    [RemoveEntityFrom(em, id) EXCEPT !.entitiesToDestroy = @ \cup {id}]

ScheduleDestroyOn(em, id) == [em EXCEPT !.entitiesToDestroy = @ \cup {id}]

\* this.entitiesToDestroy.forEach(entityId => this.removeEntity(entityId))
RECURSIVE RemoveAll(_, _)
RemoveAll(em, ids) ==
    IF ids = {} THEN em
    ELSE LET id == CHOOSE x \in ids : \A y \in ids : x <= y
         IN  RemoveAll(RemoveEntityFrom(em, id), ids \ {id})

\* EntityManager.processDestructions on the manager's fields
ProcessDestructionsOn(em) ==
    [RemoveAll(em, em.entitiesToDestroy) EXCEPT !.entitiesToDestroy = {}]

\* What an emit made for the manager carries
Payload(event, id, comps, tags) ==
    [event |-> event, entity |-> id, components |-> comps, tags |-> tags]

\* eventBus.on('entity:created', f) by user code
Observe ==
    /\ On("entity:created", "f", "null")
    /\ UNCHANGED <<emVars, restVars>>

\* EntityManager.createEntity(components, tags): the entity is built and
\* registered, then entity:created is emitted through the bus
CreateEntityOnBus(comps, tags) ==
    /\ Len(ents) < MaxEntities
    /\ Emit("entity:created")
    /\ LET id == Len(ents) + 1
           built == [NewEntityObj EXCEPT !.components = comps, !.tags = tags]
       IN  /\ ents' = Append(ents, built)
           /\ entities' = entities \cup {id}
           /\ entitiesByTag' = IndexAdd(entitiesByTag, built.tags, id)
           /\ entitiesByComponent' =
                  IndexAdd(entitiesByComponent, built.components, id)
           /\ carried' = Append(carried,
                  Payload("entity:created", id, comps, tags))
    /\ UNCHANGED <<entitiesToDestroy, objVars, talentVars, invVars, laterVars,
                   loopVars>>

\* EntityManager.scheduleDestroy(entityId), called by user code
ScheduleDestroy(id) ==
    /\ InUser
    /\ id \in 1..Len(ents)
    /\ SetManager(ScheduleDestroyOn(Manager, id))
    /\ stack' = Called(stack)
    /\ UNCHANGED <<events, eventQueue, isProcessing, unsubs, nEmits, nRegs,
                   hist, carried, objVars, talentVars, invVars, laterVars,
                   loopVars>>

\* eventBus.emit('entity:destroy', { entityId }) by user code
EmitEntityDestroy(id) ==
    /\ id \in 1..Len(ents)
    /\ Emit("entity:destroy")
    /\ carried' = Append(carried, Payload("entity:destroy", id, {}, {}))
    /\ UNCHANGED <<emVars, entitiesToDestroy, objVars, talentVars, invVars, laterVars,
                   loopVars>>

\* The manager's entity:destroy listener runs and returns:
\* this.scheduleDestroy(data.entityId)
RunManagerListener ==
    /\ stack # <<>>
    /\ Top.kind = "handler"
    /\ Top.handler.callback.fn = "scheduleDestroy"
    /\ SetManager(ScheduleDestroyOn(Manager, carried[Top.args].entity))
    /\ stack' = Advance(Pop(stack))
    /\ UNCHANGED <<events, eventQueue, isProcessing, unsubs, nEmits, nRegs,
                   hist, carried, objVars, talentVars, invVars, laterVars,
                   loopVars>>

\* A running observer returns.
ObserverReturn ==
    /\ stack # <<>>
    /\ Top.kind = "handler"
    /\ Top.handler.callback.fn = "f"
    /\ HandlerReturn

\* EntityManager.processDestructions(), called from the game loop
ProcessDestructions ==
    /\ Idle
    /\ SetManager(ProcessDestructionsOn(Manager))
    /\ UNCHANGED <<busVars, carried, objVars, talentVars, invVars, laterVars,
                   loopVars>>

\* EntityManager.update(deltaTime): processDestructions(), then the emit of
\* entities:update
Update == ProcessDestructions

CallCreateEntityOnBus ==
    \E comps \in SUBSET CompTypes, tags \in SUBSET Tags :
        CreateEntityOnBus(comps, tags)

CallScheduleDestroy == \E id \in 1..MaxEntities : ScheduleDestroy(id)

CallEmitEntityDestroy == \E id \in 1..MaxEntities : EmitEntityDestroy(id)

WorldNext ==
    \/ Observe
    \/ CallCreateEntityOnBus
    \/ CallScheduleDestroy
    \/ CallEmitEntityDestroy
    \/ ProcessDestructions
    \/ Update
    \/ ProcessQueueShift
    \/ InvokeHandler
    \/ ObserverReturn
    \/ RunManagerListener
    \/ ProcessQueueExit

WorldSpec == WorldInit /\ [][WorldNext]_vars

\* --------------------------------------------- EntityManager: the sweep
\* The configuration of WorldSpec after the driver has created MaxEntities
\* entities and subscribed an observer f to entity:destroyed and to
\* entities:update; the history counts the calls made from here on.  The
\* driver schedules entities and removes entities directly; the game
\* loop calls processDestructions() and update() while the bus is idle (as
\* GameSceneRefactored.js:1045 does), so every entity:destroyed a sweep
\* emits is dispatched before removeEntity returns.  A running observer
\* schedules entities and emits entity:destroy.  entitiesToDestroy is a Set,
\* whose forEach also visits the ids added while it runs; the order of the
\* visits is the order of insertion, which the model leaves open.
SweepInit ==
    /\ events = [e \in {"entity:destroy", "entity:destroyed", "entities:update"} |->
                    IF e = "entity:destroy" THEN <<ManagerListener>>
                    ELSE IF e = "entity:destroyed"
                    THEN <<HandlerObj(PlainCallback("f"), "null", 2)>>
                    ELSE <<HandlerObj(PlainCallback("f"), "null", 3)>>]
    /\ eventQueue = <<>>
    /\ isProcessing = FALSE
    /\ stack = <<>>
    /\ unsubs = <<>>
    /\ nEmits = 0
    /\ nRegs = 0
    /\ shifts = [a \in 1..MaxCalls |-> 0]
    /\ dropped = {}
    /\ threw = {}
    /\ registered = <<>>
    /\ invoked = <<>>
    /\ fired = {}
    /\ root = 0
    /\ ents = [id \in 1..MaxEntities |->
                  [NewEntityObj EXCEPT !.tags = {"enemy"}, !.components = {"health"}]]
    /\ entities = 1..MaxEntities
    /\ entitiesByTag = [t \in {"enemy"} |-> 1..MaxEntities]
    /\ entitiesByComponent = [c \in {"health"} |-> 1..MaxEntities]
    /\ WorldVarsInit /\ ObjInit /\ TalentInit /\ InvInit /\ LaterInit

\* const entity = this.entities.get(entityId); if (!entity) return
HoldsAlways(em, id) == TRUE

Holds(em, id) == id \in em.entities

\* forEach has no pending id left to visit
SweptAllAtOnce(pending, visited) == TRUE

SweptAll(pending, visited) == pending \subseteq visited

\* EntityManager.removeEntity(entityId) with its emit of entity:destroyed;
\* the caller says what becomes of sweep
RemoveEntityEmit(id) ==
    /\ InUser
    /\ IF Holds(Manager, id)
       THEN /\ Emit("entity:destroyed")
            /\ SetManager(RemoveEntityFrom(Manager, id))
            /\ carried' = Append(carried, Payload("entity:destroyed", id, {}, {}))
       ELSE /\ stack' = Called(stack)
            /\ UNCHANGED <<events, eventQueue, isProcessing, unsubs, nEmits,
                           nRegs, hist, emVars, entitiesToDestroy, carried>>
    /\ UNCHANGED <<managerDestroyed, objVars, talentVars, invVars, laterVars>>

\* The driver is not inside a call of the game loop.
DriverFree == Idle /\ ~sweep.active

\* User code may act: the driver between two calls, or a running handler.
UserMay == DriverFree \/ ~Idle

\* removeEntity(id) called by the driver
DirectRemove(id) ==
    /\ DriverFree
    /\ id \in 1..Len(ents)
    /\ RemoveEntityEmit(id)
    /\ UNCHANGED sweep

\* processDestructions() (update = FALSE) or update(dt) (update = TRUE) is
\* called from the game loop and enters forEach
BeginSweep(update) ==
    /\ DriverFree
    /\ sweep' = [active |-> TRUE, update |-> update, visited |-> {},
                 since |-> nEmits]
    /\ UNCHANGED <<busVars, emVars, entitiesToDestroy, carried, managerDestroyed,
                   objVars, talentVars, invVars, laterVars>>

\* forEach visits a pending id: this.removeEntity(entityId)
SweepVisit ==
    /\ Idle
    /\ sweep.active
    /\ \E id \in entitiesToDestroy \ sweep.visited :
          /\ RemoveEntityEmit(id)
          /\ sweep' = [sweep EXCEPT !.visited = @ \cup {id}]

\* forEach is done: this.entitiesToDestroy.clear(), and update() goes on to
\* emit entities:update with the live entity map
SweepEnd ==
    /\ Idle
    /\ sweep.active
    /\ SweptAll(entitiesToDestroy, sweep.visited)
    /\ entitiesToDestroy' = {}
    /\ sweep' = [sweep EXCEPT !.active = FALSE]
    /\ IF sweep.update
       THEN /\ Emit("entities:update")
            /\ carried' = Append(carried, Payload("entities:update", 0, {}, {}))
       ELSE UNCHANGED <<busVars, carried>>
    /\ UNCHANGED <<emVars, managerDestroyed, objVars, talentVars, invVars,
                   laterVars>>

SweepNext ==
    \/ UserMay /\ CallScheduleDestroy
    \/ ~Idle /\ CallEmitEntityDestroy
    \/ \E id \in 1..MaxEntities : DirectRemove(id)
    \/ \E update \in BOOLEAN : BeginSweep(update)
    \/ SweepVisit
    \/ SweepEnd
    \/ ProcessQueueShift
    \/ InvokeHandler
    \/ ObserverReturn
    \/ RunManagerListener
    \/ ProcessQueueExit

SweepSpec == SweepInit /\ [][SweepNext]_vars

\* ------------------------------------------- EntityManager: destroy()
\* The configuration of WorldSpec without observers.  The driver creates
\* entities, emits entity:destroy and, while the bus is idle, destroys the
\* manager.

\* this.scheduleDestroy, the method that destroy() hands to off(): a function
\* object other than the arrow function that setupEventListeners subscribed
ManagerMethod == PlainCallback("EntityManager.scheduleDestroy")

\* EntityManager.clear on the manager's fields
ClearManagerOn(em) ==
    [ents |-> [id \in 1..Len(em.ents) |->
                  IF id \in em.entities THEN EntityDestroy(em.ents[id])
                  ELSE em.ents[id]],
     entities |-> {}, entitiesByTag |-> NoIndex,
     entitiesByComponent |-> NoIndex, entitiesToDestroy |-> {}]

\* EntityManager.destroy(): clear(), then
\* this.eventBus.off('entity:destroy', this.scheduleDestroy)
DestroyManager ==
    /\ Idle
    /\ SetManager(ClearManagerOn(Manager))
    /\ events' = OffOp(events, "entity:destroy", ManagerMethod, "null")
    /\ managerDestroyed' = TRUE
    /\ UNCHANGED <<eventQueue, isProcessing, stack, unsubs, nEmits, nRegs, hist,
                   carried, sweep, objVars, talentVars, invVars, laterVars>>

TeardownNext ==
    \/ CallCreateEntityOnBus
    \/ CallEmitEntityDestroy
    \/ DestroyManager
    \/ ProcessQueueShift
    \/ InvokeHandler
    \/ RunManagerListener
    \/ ProcessQueueExit

TeardownSpec == WorldInit /\ [][TeardownNext]_vars

\* ------------------------------------- EntityManager: scheduled destruction
\* The configuration of EMSpec.  The driver creates entities, edits their
\* tags and components, schedules destructions and runs the game loop.
DestroyNext ==
    \/ CallCreateEntity
    \/ CallAddTag
    \/ CallRemoveTag
    \/ CallAddComponent
    \/ CallRemoveComponent
    \/ CallScheduleDestroy
    \/ ProcessDestructions
    \/ Update

DestroySpec == Init /\ [][DestroyNext]_vars

\* ------------------------------------------ EntityManager: created entities
\* The configuration of EMSpec.  Every entity is made by createEntity with its
\* components and is never edited by the driver; the driver deactivates,
\* reactivates and removes entities.
QueryComps == {"health", "power"}

QueryNext ==
    \/ \E comps \in SUBSET QueryComps, tags \in SUBSET Tags :
           CreateEntity(comps, tags)
    \/ CallSetActive
    \/ CallRemoveEntity

QuerySpec == Init /\ [][QueryNext]_vars

\* ==================================================== Entity and its data
\* One Entity object with the data of its components.  An object passed to
\* addComponent has one top-level field, value.  objs are the objects the
\* caller holds: it passes them to addComponent and may assign to their field
\* at any time.  A stored record remembers in src which caller object it was
\* copied from (0 for none).  tags is the Set as the sequence of its elements
\* in insertion order, which is the order Array.from(tags) lists them in.
DataTypes == {"health", "power"}

Values == {1, 2}

EntityIds == {"null", "hero"}

\* The state after the caller has built its objects and called new Entity(id)
ObjSpecInit ==
    /\ BusInit /\ EMInit /\ WorldVarsInit /\ TalentInit /\ InvInit /\ LaterInit
    /\ \E id \in EntityIds : entity = NewEntityWithId(id)
    /\ objs \in [1..MaxObjects -> [value : Values]]

HasComponent(ent, type) == type \in DOMAIN ent.components

\* this.components.set(componentType, { ...componentData }), refused on a
\* destroyed entity (Entity.js:26-34)
EntityAddComponentData(ent, type, data, src) ==
    IF ent.destroyed THEN ent
    ELSE [ent EXCEPT !.components =
             [t \in DOMAIN ent.components \cup {type} |->
                 IF t = type THEN [data |-> data, src |-> src]
                 ELSE ent.components[t]]]

\* this.components.delete(componentType) (Entity.js:64-67)
EntityRemoveComponentData(ent, type) ==
    [ent EXCEPT !.components =
        [t \in DOMAIN ent.components \ {type} |-> ent.components[t]]]

\* The fields of a stored record as a reader finds them: those of the copy
\* made by addComponent
RecordLive(stored, os) ==
    IF stored.src # 0 THEN os[stored.src] ELSE stored.data

Record(stored, os) == stored.data

\* Entity.getComponent(type), for a type the entity has
GetComponent(ent, os, type) == Record(ent.components[type], os)

\* this.tags.add(tag) on the Set of one Entity object (Entity.js:73-76): a
\* new element joins at the end, an element already there keeps its place
TagsAdd(ent, tag) ==
    IF \E i \in 1..Len(ent.tags) : ent.tags[i] = tag THEN ent
    ELSE [ent EXCEPT !.tags = Append(@, tag)]

\* this.tags.delete(tag) on the Set of one Entity object (Entity.js:82-85)
TagsDelete(ent, tag) ==
    [ent EXCEPT !.tags = SelectSeq(@, LAMBDA t : t # tag)]

\* Entity.serialize (Entity.js:134-141)
Serialize(ent, os) ==
    [id |-> ent.id,
     components |->
         [t \in DOMAIN ent.components |-> Record(ent.components[t], os)],
     tags |-> ent.tags,
     active |-> ent.active]

\* Object.entries(data.components).forEach(... entity.addComponent ...)
RECURSIVE RestoreComponents(_, _, _)
RestoreComponents(ent, comps, types) ==
    IF types = {} THEN ent
    ELSE LET t == CHOOSE y \in types : TRUE
         IN  RestoreComponents(EntityAddComponentData(ent, t, comps[t], 0),
                               comps, types \ {t})

\* data.tags.forEach(tag => entity.addTag(tag))
RECURSIVE RestoreTags(_, _)
RestoreTags(ent, tags) ==
    IF tags = <<>> THEN ent
    ELSE RestoreTags(TagsAdd(ent, Head(tags)), Tail(tags))

\* entity.active = data.active !== false
RestoredActiveTrue(data) == TRUE

RestoredActive(data) ==
    IF "active" \in DOMAIN data THEN data.active # FALSE ELSE TRUE

\* Entity.deserialize (Entity.js:146-160)
Deserialize(data) ==
    [RestoreTags(RestoreComponents(NewEntityWithId(data.id), data.components,
                                   DOMAIN data.components),
                 data.tags)
     EXCEPT !.active = RestoredActive(data)]

\* entity.addComponent(type, objs[a])
ObjAddComponent(type, a) ==
    /\ entity' = EntityAddComponentData(entity, type, objs[a], a)
    /\ UNCHANGED <<objs, busVars, emVars, worldVars, talentVars, invVars,
                   laterVars>>

\* entity.removeComponent(type)
ObjRemoveComponent(type) ==
    /\ entity' = EntityRemoveComponentData(entity, type)
    /\ UNCHANGED <<objs, busVars, emVars, worldVars, talentVars, invVars,
                   laterVars>>

\* entity.addTag(tag)
ObjAddTag(tag) ==
    /\ entity' = TagsAdd(entity, tag)
    /\ UNCHANGED <<objs, busVars, emVars, worldVars, talentVars, invVars,
                   laterVars>>

\* entity.removeTag(tag)
ObjRemoveTag(tag) ==
    /\ entity' = TagsDelete(entity, tag)
    /\ UNCHANGED <<objs, busVars, emVars, worldVars, talentVars, invVars,
                   laterVars>>

\* entity.setActive(active)
ObjSetActive(b) ==
    /\ entity' = EntitySetActive(entity, b)
    /\ UNCHANGED <<objs, busVars, emVars, worldVars, talentVars, invVars,
                   laterVars>>

\* entity.destroy()
ObjDestroy ==
    /\ entity' = EntityDestroy(entity)
    /\ UNCHANGED <<objs, busVars, emVars, worldVars, talentVars, invVars,
                   laterVars>>

\* The caller assigns to the field of one of its objects: obj.value = v
AssignField(a, v) ==
    /\ objs' = [objs EXCEPT ![a].value = v]
    /\ UNCHANGED <<entity, busVars, emVars, worldVars, talentVars, invVars,
                   laterVars>>

ObjNext ==
    \/ \E type \in DataTypes, a \in 1..MaxObjects : ObjAddComponent(type, a)
    \/ \E type \in DataTypes : ObjRemoveComponent(type)
    \/ \E tag \in Tags : ObjAddTag(tag)
    \/ \E tag \in Tags : ObjRemoveTag(tag)
    \/ \E b \in BOOLEAN : ObjSetActive(b)
    \/ ObjDestroy
    \/ \E a \in 1..MaxObjects, v \in Values : AssignField(a, v)

ObjSpec == ObjSpecInit /\ [][ObjNext]_vars

\* ============================================ ProgressionSystem: talents
\* One entity held by the manager, with a progression component.  talents is
\* the nested object progression.talents: tree name -> talent name -> rank.
\* A string that the code splits is a sequence of tokens, the separators
\* being tokens of their own: 'ironGrip:3' is <<"ironGrip", ":", "3">>.  The
\* events spendTalentPoint emits go to the bus; talentCall keeps their names
\* (with the error text) instead.  The bonuses that applyTalentEffects
\* computes are left out.

\* this.talentTrees (ProgressionSystem.js:21-70): maxRanks and requires
TalentTrees ==
    [strength |->
        [ironGrip |-> [maxRanks |-> 5, requires |-> <<>>],
         muscleMemory |-> [maxRanks |-> 5, requires |-> <<>>],
         titanStrength |->
            [maxRanks |-> 1, requires |-> << <<"ironGrip", ":", "3">> >>]],
     defense |->
        [thickSkin |-> [maxRanks |-> 5, requires |-> <<>>],
         regeneration |-> [maxRanks |-> 3, requires |-> <<>>],
         unstoppable |->
            [maxRanks |-> 1, requires |-> << <<"thickSkin", ":", "3">> >>]]]

\* Property names every object literal inherits from Object.prototype:
\* constructor is the function Object, toString stands for the other
\* inherited functions, and __proto__ is the accessor of the prototype,
\* whose value is Object.prototype and whose setter ignores a value that is
\* not an object
ObjectPrototypeKeys == {"constructor", "toString", "__proto__"}

\* What String() gives for the inherited function of that name
InheritedSource(name) ==
    IF name = "constructor" THEN "function Object() { [native code] }"
    ELSE "function " \o name \o "() { [native code] }"

\* the names a caller passes: known ones, unknown ones, an inherited one
TreeNames == {"strength", "defense", "magic", "constructor"}

TalentNames == {"ironGrip", "titanStrength", "regeneration", "bogus",
                "constructor", "__proto__"}

\* str.split(sep): the pieces of a token sequence between the separators
RECURSIVE Split(_, _)
Split(str, sep) ==
    IF \A i \in 1..Len(str) : str[i] # sep THEN <<str>>
    ELSE LET k == CHOOSE i \in 1..Len(str) :
                      str[i] = sep /\ \A j \in 1..(i - 1) : str[j] # sep
         IN  <<SubSeq(str, 1, k - 1)>> \o Split(SubSeq(str, k + 1, Len(str)), sep)

\* A piece that is one token is the string of that token; a variable
\* destructured from a missing array element is undefined.
Piece(pieces, i) ==
    IF i <= Len(pieces) /\ Len(pieces[i]) = 1 THEN pieces[i][1] ELSE "undefined"

\* parseInt on the digit strings used
ParseInt(str) ==
    CASE str = "1" -> 1 [] str = "2" -> 2 [] str = "3" -> 3 [] str = "4" -> 4
      [] str = "5" -> 5 [] OTHER -> 0

\* progression.talents[treeName]?.[talentName] || 0
RankOf(prog, treeName, talentName) ==
    IF treeName \in DOMAIN prog.talents
       /\ talentName \in DOMAIN prog.talents[treeName]
    THEN prog.talents[treeName][talentName]
    ELSE 0

\* ProgressionSystem.checkTalentRequirements (ProgressionSystem.js:310-318)
CheckTalentRequirements(prog, requirements) ==
    \A r \in 1..Len(requirements) :
        LET parts == Split(requirements[r], ":")
            names == Split(parts[1], ".")
            treeName == Piece(names, 1)
            talentName == Piece(names, 2)
        IN  RankOf(prog, treeName, talentName) >= ParseInt(Piece(parts, 2))

\* progression.talents[key] = value
SetKey(obj, key, value) ==
    [k \in DOMAIN obj \cup {key} |-> IF k = key THEN value ELSE obj[k]]

TalentOutcome(prog, result, emitted) ==
    [progression |-> prog, result |-> result, emitted |-> emitted]

\* ProgressionSystem.spendTalentPoint for the entity (ProgressionSystem.js:
\* 183-247): the component afterwards, how the call ended, what it emitted
SpendTalentPoint(prog, treeName, talentName) ==
    IF prog.talentPoints <= 0
    THEN TalentOutcome(prog, "returned",
             <<"progression:error No talent points available">>)
    ELSE IF treeName \notin DOMAIN TalentTrees
    THEN (IF treeName \in ObjectPrototypeKeys
          \* tree is an inherited value without talents: tree.talents[...]
          \* is a read of a property of undefined, a TypeError
          THEN TalentOutcome(prog, "threw", <<>>)
          ELSE TalentOutcome(prog, "returned", <<>>))
    ELSE IF talentName \notin DOMAIN TalentTrees[treeName]
    THEN (IF talentName \in ObjectPrototypeKeys
          \* tree.talents[talentName] is the inherited function, which is
          \* truthy; currentRank is the string stored by an earlier call or
          \* the same inherited function; neither is >= talent.maxRanks,
          \* which is undefined, and talent.requires is undefined;
          \* currentRank + 1 is a string concatenation.  For __proto__ both
          \* reads give Object.prototype and the assignment of the string
          \* '[object Object]1' goes to the setter, which ignores it: no
          \* key is stored
          THEN LET prog1 == IF treeName \in DOMAIN prog.talents THEN prog
                            ELSE [prog EXCEPT
                                     !.talents = SetKey(@, treeName, <<>>)]
                   currentRank ==
                       IF talentName \in DOMAIN prog1.talents[treeName]
                       THEN prog1.talents[treeName][talentName]
                       ELSE InheritedSource(talentName)
               IN  TalentOutcome(
                       [prog1 EXCEPT
                           !.talentPoints = @ - 1,
                           !.talents =
                               IF talentName = "__proto__" THEN @
                               ELSE SetKey(@, treeName,
                                        SetKey(@[treeName], talentName,
                                               currentRank \o "1"))],
                       "returned",
                       <<"progression:talents-updated",
                         "progression:talent-learned">>)
          ELSE TalentOutcome(prog, "returned", <<>>))
    ELSE LET talent == TalentTrees[treeName][talentName]
             prog1 == IF treeName \in DOMAIN prog.talents THEN prog
                      ELSE [prog EXCEPT
                               !.talents = SetKey(@, treeName, <<>>)]
             currentRank == RankOf(prog1, treeName, talentName)
         IN  IF currentRank >= talent.maxRanks
             THEN TalentOutcome(prog1, "returned",
                      <<"progression:error Talent at max rank">>)
             ELSE IF /\ talent.requires # <<>>
                     /\ ~CheckTalentRequirements(prog1, talent.requires)
             THEN TalentOutcome(prog1, "returned",
                      <<"progression:error Talent requirements not met">>)
             ELSE TalentOutcome(
                      [prog1 EXCEPT
                          !.talentPoints = @ - 1,
                          !.talents = SetKey(@, treeName,
                              SetKey(@[treeName], talentName,
                                     currentRank + 1))],
                      "returned",
                      <<"progression:talents-updated",
                        "progression:talent-learned">>)

\* A level gained in addExperience (ProgressionSystem.js:148, 154):
\* progression.level++ and
\* progression.talentPoints += this.config.talentPointsPerLevel
AwardTalentPoint ==
    /\ progression.level <= MaxTalentPoints
    /\ progression' = [progression EXCEPT
                           !.level = @ + 1,
                           !.talentPoints = @ + TalentPointsPerLevel]
    /\ UNCHANGED <<talentCall, busVars, emVars, worldVars, objVars, invVars,
                   laterVars>>

\* spendTalentPoint({ entityId, treeName, talentName })
SpendTalent(treeName, talentName) ==
    /\ LET r == SpendTalentPoint(progression, treeName, talentName)
       IN  /\ progression' = r.progression
           /\ talentCall' = [result |-> r.result, emitted |-> r.emitted]
    /\ UNCHANGED <<busVars, emVars, worldVars, objVars, invVars,
                   laterVars>>

\* resetProgression(entityId) (ProgressionSystem.js:444-467), as far as
\* it writes the fields kept here: level = 1, talentPoints = 0,
\* talents = {}, then updateDerivedStats and the reset event
ResetTalents ==
    /\ progression' = [level |-> 1, talentPoints |-> 0, talents |-> <<>>]
    /\ talentCall' = [result |-> "returned",
                      emitted |-> <<"progression:talents-updated",
                                    "progression:reset">>]
    /\ UNCHANGED <<busVars, emVars, worldVars, objVars, invVars,
                   laterVars>>

TalentNext ==
    \/ AwardTalentPoint
    \/ ResetTalents
    \/ \E treeName \in TreeNames, talentName \in TalentNames :
           SpendTalent(treeName, talentName)

TalentSpec == Init /\ [][TalentNext]_vars

\* ================================================ InventorySystem: addItem
\* One entity held by the manager, with an inventory component.  The
\* constructor leaves this.itemDefinitions empty and no code of the system
\* fills it: the definitions are stored in the public Map by the code that
\* uses the system.  The events addItem emits go to the bus; itemCall keeps
\* their names (with the error text) instead.

\* this.config.stackableTypes and this.config.maxStackSize
StackableTypes == {"consumable", "material"}

MaxStackSize == 99

\* the item definitions a caller stores, and the ids and quantities it
\* passes
ItemTable ==
    [potion |-> [type |-> "consumable", usable |-> TRUE, consumable |-> TRUE,
                 effect |-> "heal"],
     sword |-> [type |-> "weapon"]]

ItemIds == {"potion", "sword", "ghost"}

Quantities == {1, 60}

\* The state after the definitions are loaded and the entity has been given
\* an empty inventory of some capacity
InvSpecInit ==
    /\ BusInit /\ EMInit /\ WorldVarsInit /\ ObjInit /\ TalentInit /\ LaterInit
    /\ \E size \in 1..MaxInventorySize :
           inventory = [items |-> <<>>, maxSize |-> size]
    /\ itemDefinitions = <<>>
    /\ itemCall = NoItemCall

ItemOutcome(inv, result, emitted) ==
    [inventory |-> inv, result |-> result, emitted |-> emitted]

\* inventory.items.find(item => item.itemId === itemId): the index of the
\* first stack of the item, 0 when there is none
FindStack(items, itemId) ==
    LET hits == {i \in 1..Len(items) : items[i].itemId = itemId}
    IN  IF hits = {} THEN 0 ELSE CHOOSE i \in hits : \A j \in hits : i <= j

Min(a, b) == IF a <= b THEN a ELSE b

\* InventorySystem.addItem for the entity (InventorySystem.js:71-135): the
\* component afterwards, how the call ended, what it emitted.  depth is the
\* number of addItem activations on the call stack; beyond MaxCallDepth the
\* engine's stack is exhausted and the call throws a RangeError, which
\* leaves every activation before its emit.
RECURSIVE AddItem(_, _, _, _)
AddItem(inv, itemId, quantity, depth) ==
    IF depth > MaxCallDepth THEN ItemOutcome(inv, "threw", <<>>)
    ELSE IF itemId \notin DOMAIN itemDefinitions
    THEN ItemOutcome(inv, "returned", <<"inventory:error Unknown item">>)
    ELSE LET k == IF itemDefinitions[itemId].type \in StackableTypes
                  THEN FindStack(inv.items, itemId) ELSE 0
         IN  IF k # 0
             THEN LET spaceInStack == MaxStackSize - inv.items[k].quantity
                      toAdd == Min(quantity, spaceInStack)
                      inv1 == [inv EXCEPT !.items[k].quantity = @ + toAdd]
                  IN  IF toAdd < quantity
                      THEN LET r == AddItem(inv1, itemId, quantity - toAdd,
                                            depth + 1)
                           IN  IF r.result = "threw" THEN r
                               ELSE ItemOutcome(r.inventory, "returned",
                                        Append(r.emitted,
                                               "inventory:item-added"))
                      ELSE ItemOutcome(inv1, "returned",
                               <<"inventory:item-added">>)
             ELSE IF Len(inv.items) >= inv.maxSize
             THEN ItemOutcome(inv, "returned",
                      <<"inventory:error Inventory full">>)
             ELSE ItemOutcome(
                      [inv EXCEPT !.items = Append(@,
                          [itemId |-> itemId, quantity |-> quantity,
                           equipped |-> FALSE])],
                      "returned", <<"inventory:item-added">>)

\* addItem({ entityId, itemId, quantity })
AddItemCall(itemId, quantity) ==
    /\ LET r == AddItem(inventory, itemId, quantity, 1)
       IN  /\ inventory' = r.inventory
           /\ itemCall' = [result |-> r.result, emitted |-> r.emitted]
    /\ UNCHANGED <<itemDefinitions, busVars, emVars, worldVars, objVars,
                   talentVars, laterVars>>

\* InventorySystem.removeItem for the entity (InventorySystem.js:141-173)
RemoveItem(inv, itemId, quantity) ==
    LET itemIndex == FindStack(inv.items, itemId)
    IN  IF itemIndex = 0
        THEN ItemOutcome(inv, "returned", <<"inventory:error Item not found">>)
        ELSE ItemOutcome(
                 IF inv.items[itemIndex].quantity > quantity
                 THEN [inv EXCEPT !.items[itemIndex].quantity = @ - quantity]
                 ELSE [inv EXCEPT !.items = Splice(@, itemIndex)],
                 "returned", <<"inventory:item-removed">>)

\* itemDef.usable, itemDef.consumable, itemDef.effect: a field the
\* definition lacks is undefined
Flag(itemDef, field) == field \in DOMAIN itemDef /\ itemDef[field] = TRUE

\* InventorySystem.useItem for the entity (InventorySystem.js:179-212)
UseItem(inv, itemId) ==
    IF itemId \notin DOMAIN itemDefinitions
       \/ ~Flag(itemDefinitions[itemId], "usable")
    THEN ItemOutcome(inv, "returned", <<"inventory:error Item cannot be used">>)
    ELSE LET itemDef == itemDefinitions[itemId]
             effect == IF "effect" \in DOMAIN itemDef
                       THEN <<"item:effect:" \o itemDef.effect>> ELSE <<>>
             r == IF Flag(itemDef, "consumable")
                  THEN RemoveItem(inv, itemId, 1)
                  ELSE ItemOutcome(inv, "returned", <<>>)
         IN  ItemOutcome(r.inventory, "returned",
                 effect \o r.emitted \o <<"inventory:item-used">>)

\* removeItem({ entityId, itemId, quantity })
RemoveItemCall(itemId, quantity) ==
    /\ LET r == RemoveItem(inventory, itemId, quantity)
       IN  /\ inventory' = r.inventory
           /\ itemCall' = [result |-> r.result, emitted |-> r.emitted]
    /\ UNCHANGED <<itemDefinitions, busVars, emVars, worldVars, objVars,
                   talentVars, laterVars>>

\* useItem({ entityId, itemId })
UseItemCall(itemId) ==
    /\ LET r == UseItem(inventory, itemId)
       IN  /\ inventory' = r.inventory
           /\ itemCall' = [result |-> r.result, emitted |-> r.emitted]
    /\ UNCHANGED <<itemDefinitions, busVars, emVars, worldVars, objVars,
                   talentVars, laterVars>>

\* inventorySystem.itemDefinitions.set(itemId, itemDef) by the code that
\* uses the system, for an id not yet defined
SetItemDefinition(itemId, itemDef) ==
    /\ itemId \notin DOMAIN itemDefinitions
    /\ itemDefinitions' = SetKey(itemDefinitions, itemId, itemDef)
    /\ UNCHANGED <<inventory, itemCall, busVars, emVars, worldVars, objVars,
                   talentVars, laterVars>>

InvNext ==
    \/ \E itemId \in DOMAIN ItemTable :
           SetItemDefinition(itemId, ItemTable[itemId])
    \/ \E itemId \in ItemIds, quantity \in Quantities :
           AddItemCall(itemId, quantity)
    \/ \E itemId \in ItemIds, quantity \in Quantities :
           RemoveItemCall(itemId, quantity)
    \/ \E itemId \in ItemIds : UseItemCall(itemId)

InvSpec == InvSpecInit /\ [][InvNext]_vars

\* =============================================== InventorySystem: equipment
\* The entity's inventory component with its equipment slots.  The item
\* definitions are stored by the code that uses the system: two items for the
\* gloves slot, one for the wristband slot and one that is not equipable,
\* none of a stackable type; power is the stat an item gives.
EquipTable ==
    [glove |-> [type |-> "equipment", equipable |-> TRUE, slot |-> "gloves",
                power |-> 2],
     grip |-> [type |-> "equipment", equipable |-> TRUE, slot |-> "gloves",
               power |-> 3],
     band |-> [type |-> "equipment", equipable |-> TRUE, slot |-> "wristband",
               power |-> 1],
     rock |-> [type |-> "misc", equipable |-> FALSE, slot |-> "null",
               power |-> 0]]

\* the ids and slots a caller passes
EquipIds == {"glove", "grip", "band", "rock", "ghost"}

Slots == {"gloves", "wristband"}

\* this.config.defaultEquipmentSlots
DefaultEquipmentSlots ==
    [gloves |-> "null", wristband |-> "null", protein |-> "null",
     trophy |-> "null"]

EquipSpecInit ==
    /\ BusInit /\ EMInit /\ WorldVarsInit /\ ObjInit /\ TalentInit /\ LaterInit
    /\ inventory = [items |-> <<>>, maxSize |-> MaxInventorySize,
                    equipment |-> DefaultEquipmentSlots]
    /\ itemDefinitions = <<>>
    /\ itemCall = NoItemCall

RECURSIVE SumPower(_, _)
SumPower(equipment, slots) ==
    IF slots = {} THEN 0
    ELSE LET slot == CHOOSE x \in slots : TRUE
             itemId == equipment[slot]
         IN  (IF itemId # "null" /\ itemId \in DOMAIN itemDefinitions
              THEN itemDefinitions[itemId].power ELSE 0)
             + SumPower(equipment, slots \ {slot})

\* InventorySystem.applyEquipmentStats (InventorySystem.js:310-338): the
\* equipmentBonuses component afterwards
ApplyEquipmentStats(inv) ==
    [present |-> TRUE, power |-> SumPower(inv.equipment, DOMAIN inv.equipment)]

EquipOutcome(inv, bonuses, emitted) ==
    [inventory |-> inv, bonuses |-> bonuses, emitted |-> emitted]

\* InventorySystem.unequipItem({ entityId, slot }) (InventorySystem.js:
\* 277-304)
UnequipItem(inv, bonuses, slot) ==
    LET itemId == inv.equipment[slot]
        k == FindStack(inv.items, itemId)
        inv1 == IF k # 0 THEN [inv EXCEPT !.items[k].equipped = FALSE] ELSE inv
        inv2 == [inv1 EXCEPT !.equipment[slot] = "null"]
    IN  IF itemId = "null" THEN EquipOutcome(inv, bonuses, <<>>)
        ELSE EquipOutcome(inv2, ApplyEquipmentStats(inv2),
                 <<"inventory:equipment-changed", "inventory:item-unequipped">>)

\* InventorySystem.equipItem({ entityId, itemId, slot }) (InventorySystem.js:
\* 218-271)
EquipItem(inv, bonuses, itemId, slot) ==
    IF itemId \notin DOMAIN itemDefinitions \/ ~itemDefinitions[itemId].equipable
    THEN EquipOutcome(inv, bonuses,
             <<"inventory:error Item cannot be equipped">>)
    ELSE IF itemDefinitions[itemId].slot # slot
    THEN EquipOutcome(inv, bonuses,
             <<"inventory:error Item cannot be equipped in slot">>)
    ELSE LET u == IF inv.equipment[slot] # "null"
                  THEN UnequipItem(inv, bonuses, slot)
                  ELSE EquipOutcome(inv, bonuses, <<>>)
             k == FindStack(u.inventory.items, itemId)
             inv1 == [u.inventory EXCEPT !.equipment[slot] = itemId,
                                         !.items[k].equipped = TRUE]
         IN  IF k = 0
             THEN EquipOutcome(u.inventory, u.bonuses,
                      Append(u.emitted, "inventory:error Item not in inventory"))
             ELSE EquipOutcome(inv1, ApplyEquipmentStats(inv1),
                      u.emitted \o <<"inventory:equipment-changed",
                                      "inventory:item-equipped">>)

SetEquip(r) ==
    /\ inventory' = r.inventory
    /\ equipmentBonuses' = r.bonuses
    /\ itemCall' = [result |-> "returned", emitted |-> r.emitted]

\* equipItem({ entityId, itemId, slot })
EquipItemCall(itemId, slot) ==
    /\ SetEquip(EquipItem(inventory, equipmentBonuses, itemId, slot))
    /\ UNCHANGED <<itemDefinitions, oldEquipRest>>

\* unequipItem({ entityId, slot })
UnequipItemCall(slot) ==
    /\ SetEquip(UnequipItem(inventory, equipmentBonuses, slot))
    /\ UNCHANGED <<itemDefinitions, oldEquipRest>>

EquipNext ==
    \/ \E itemId \in DOMAIN EquipTable :
           SetItemDefinition(itemId, EquipTable[itemId])
    \/ \E itemId \in EquipIds : AddItemCall(itemId, 1)
    \/ \E itemId \in EquipIds : RemoveItemCall(itemId, 1)
    \/ \E itemId \in EquipIds : UseItemCall(itemId)
    \/ \E itemId \in EquipIds, slot \in Slots : EquipItemCall(itemId, slot)
    \/ \E slot \in Slots : UnequipItemCall(slot)

EquipSpec == EquipSpecInit /\ [][EquipNext]_vars

\* ================================================== PartySystem: shared XP
\* The configuration is an EventBus, an EntityManager, a ProgressionSystem
\* and a PartySystem; the members of one party are held by the manager, are
\* alive and have a progression component.  progression:add-xp is handled
\* by ProgressionSystem.addExperience and progression:xp-gained by
\* PartySystem.handleXPGained; progression:level-up and
\* progression:talents-updated have no subscriber here.  An
\* entry of xpQueue is the event name with the entityId and amount of its
\* payload.  The driver hands XP to a member by emitting progression:add-xp.
XPAmounts == {8, 100}

\* The state in which every member, or only the first, has a progression
\* component
PartySpecInit ==
    /\ BusInit /\ EMInit /\ WorldVarsInit /\ ObjInit /\ TalentInit /\ InvInit
    /\ CombatInit /\ LastInit
    /\ \E n \in 1..Len(PartyMembers) :
           progressions =
               [m \in {PartyMembers[i] : i \in 1..n} |->
                   [level |-> 1, experience |-> 0,
                    experienceToNext |-> CalculateXPRequired(1),
                    statPoints |-> 0, talentPoints |-> 0]]
    /\ xpQueue = <<>>
    /\ xpProcessing = FALSE

XPEvent(name, id, amount) == [eventName |-> name, entityId |-> id, amount |-> amount]

\* the while loop of addExperience (ProgressionSystem.js:145-155)
LevelUpOnce(prog) ==
    IF prog.experience < prog.experienceToNext THEN prog
    ELSE [prog EXCEPT
             !.level = @ + 1,
             !.experience = @ - prog.experienceToNext,
             !.experienceToNext = CalculateXPRequired(prog.level + 1),
             !.statPoints = @ + StatPointsPerLevel,
             !.talentPoints = @ + TalentPointsPerLevel]

RECURSIVE LevelUp(_)
LevelUp(prog) ==
    IF prog.experience < prog.experienceToNext THEN prog
    ELSE LevelUp([prog EXCEPT
                     !.level = @ + 1,
                     !.experience = @ - prog.experienceToNext,
                     !.experienceToNext = CalculateXPRequired(prog.level + 1),
                     !.statPoints = @ + StatPointsPerLevel,
                     !.talentPoints = @ + TalentPointsPerLevel])

\* ProgressionSystem.addExperience({ entityId, amount }) while the bus is
\* dispatching: the components and the queue afterwards
AddExperience(progs, queue, entityId, amount) ==
    IF entityId \notin DOMAIN progs
    THEN [progressions |-> progs, queue |-> queue]
    ELSE
    LET before == progs[entityId]
        after == LevelUp([before EXCEPT !.experience = @ + amount])
        \* updateDerivedStats ends in applyTalentEffects, which emits
        \* progression:talents-updated (lines 159, 361, 413)
        levelUp == IF after.level > before.level
                   THEN <<XPEvent("progression:talents-updated", entityId, 0),
                          XPEvent("progression:level-up", entityId, 0)>>
                   ELSE <<>>
    IN  [progressions |-> [progs EXCEPT ![entityId] = after],
         queue |-> queue \o levelUp
                   \o <<XPEvent("progression:xp-gained", entityId, amount)>>]

\* party.members.forEach(...) of handleXPGained after the first i members
RECURSIVE ShareWith(_, _, _, _)
ShareWith(queue, entityId, individualShare, i) ==
    IF i = 0 THEN queue
    ELSE LET q == ShareWith(queue, entityId, individualShare, i - 1)
         IN  IF PartyMembers[i] = entityId THEN q
             ELSE Append(q, XPEvent("progression:add-xp", PartyMembers[i],
                                    individualShare))

\* PartySystem.handleXPGained({ entityId, amount }) (part_001:629-657): the
\* queue afterwards; sharedXPPercent is 0.5
HandleXPGained(queue, entityId, amount) ==
    LET sharedAmount == amount \div 2
        individualShare == sharedAmount \div Len(PartyMembers)
    IN  ShareWith(queue, entityId, individualShare, Len(PartyMembers))

\* eventBus.emit('progression:add-xp', { entityId, amount }) by the driver:
\* the entry is queued and processQueue is entered
GainXP(entityId, amount) ==
    /\ ~xpProcessing
    /\ entityId \in DOMAIN progressions
    /\ progressions[entityId].level < MaxLevel
    /\ xpQueue' = <<XPEvent("progression:add-xp", entityId, amount)>>
    /\ xpProcessing' = TRUE
    /\ UNCHANGED <<progressions, busVars, emVars, worldVars, objVars, talentVars,
                   invVars, combatVars, lastVars>>

\* processQueue: one turn of the while loop; the entry is shifted and its
\* handlers run
DispatchXP ==
    /\ xpProcessing
    /\ xpQueue # <<>>
    /\ LET ev == Head(xpQueue)
       IN  CASE ev.eventName = "progression:add-xp" ->
                  LET r == AddExperience(progressions, Tail(xpQueue),
                                         ev.entityId, ev.amount)
                  IN  /\ progressions' = r.progressions
                      /\ xpQueue' = r.queue
             [] ev.eventName = "progression:xp-gained" ->
                  /\ xpQueue' = HandleXPGained(Tail(xpQueue), ev.entityId,
                                               ev.amount)
                  /\ UNCHANGED progressions
             [] OTHER ->
                  /\ xpQueue' = Tail(xpQueue)
                  /\ UNCHANGED progressions
    /\ UNCHANGED <<xpProcessing, busVars, emVars, worldVars, objVars, talentVars,
                   invVars, combatVars, lastVars>>

\* processQueue: the while loop ends, this.isProcessing = false, and the
\* driver's emit returns
DrainReturns ==
    /\ xpProcessing
    /\ xpQueue = <<>>
    /\ xpProcessing' = FALSE
    /\ UNCHANGED <<progressions, xpQueue, busVars, emVars, worldVars, objVars,
                   talentVars, invVars, combatVars, lastVars>>

PartyNext ==
    \/ \E i \in 1..Len(PartyMembers), amount \in XPAmounts :
           GainXP(PartyMembers[i], amount)
    \/ DispatchXP
    \/ DrainReturns

\* processQueue keeps running while it can take a step
PartySpec ==
    /\ PartySpecInit
    /\ [][PartyNext]_vars
    /\ WF_vars(DispatchXP)
    /\ WF_vars(DrainReturns)

\* ================================================ CombatSystem: combats
\* The configuration is an EventBus, an EntityManager and a CombatSystem; the
\* manager holds MaxEntities + 1 entities, all with a health component, and
\* the first of them was created with the tag player.  The events the
\* CombatSystem emits go to the bus, where nothing is subscribed to them;
\* combatCall keeps those of the last call instead.  An entity:destroyed
\* event reaches the CombatSystem's listener, which calls endCombat, before
\* removeEntity returns.  The timers set by startCombat have the same delay
\* and run in the order they were set.  The clock and the tug position of a
\* combat are not kept: what checkCombatEnd decides from them is an input.
CombatSpecInit ==
    /\ BusInit /\ WorldVarsInit /\ ObjInit /\ TalentInit /\ InvInit
    /\ PartyInit /\ CombatInit /\ LastInit
    /\ ents = [id \in 1..(MaxEntities + 1) |->
                  [NewEntityObj EXCEPT
                      !.components = {"health"},
                      !.tags = IF id = 1 THEN {"player"} ELSE {}]]
    /\ entities = 1..(MaxEntities + 1)
    /\ entitiesByTag = [t \in {"player"} |-> {1}]
    /\ entitiesByComponent = [c \in {"health"} |-> 1..(MaxEntities + 1)]

CombatEvent(name, combatData) ==
    [event |-> name, attackerId |-> combatData.attackerId,
     defenderId |-> combatData.defenderId, result |-> combatData.result]

\* map.delete(attackerId); map.delete(defenderId)
DeleteKeys(map, keys) == [k \in DOMAIN map \ keys |-> map[k]]

\* The iteration order of a Map after set(key, ...): a key the Map has
\* keeps its place, a new key goes to the end
KeyOrderSet(order, key) ==
    IF \E i \in 1..Len(order) : order[i] = key THEN order
    ELSE Append(order, key)

\* The iteration order of a Map after delete(key) for every key of keys
KeyOrderDelete(order, keys) == SelectSeq(order, LAMBDA k : k \notin keys)

\* if (entity) entity.removeComponent('inCombat'), for both participants
DropInCombat(es, held, ids) ==
    [id \in 1..Len(es) |->
        IF id \in ids \cap held THEN EntityRemoveComponent(es[id], "inCombat")
        ELSE es[id]]

\* endCombat deleting only the key it was called with
EndCombatOnOne(cs, es, held, entityId) ==
    IF entityId \notin DOMAIN cs.activeCombats
    THEN [cs |-> cs, ents |-> es, emitted |-> <<>>]
    ELSE LET combatData == cs.combats[cs.activeCombats[entityId]]
         IN  [cs |-> [cs EXCEPT
                         !.activeCombats = DeleteKeys(@, {entityId}),
                         !.activeKeys = KeyOrderDelete(@, {entityId}),
                         !.combatPairs = DeleteKeys(@, {entityId})],
              ents |-> DropInCombat(es, held, {entityId}),
              emitted |-> <<CombatEvent("combat:ended", combatData)>>]

\* CombatSystem.endCombat(entityId) (CombatSystem.js:338-364) on the fields
\* of the system and the entities: the fields afterwards and what was emitted
EndCombatOn(cs, es, held, entityId) ==
    IF entityId \notin DOMAIN cs.activeCombats
    THEN [cs |-> cs, ents |-> es, emitted |-> <<>>]
    ELSE LET combatData == cs.combats[cs.activeCombats[entityId]]
             both == {combatData.attackerId, combatData.defenderId}
         IN  [cs |-> [cs EXCEPT
                         !.activeCombats = DeleteKeys(@, both),
                         !.activeKeys = KeyOrderDelete(@, both),
                         !.combatPairs = DeleteKeys(@, both)],
              ents |-> DropInCombat(es, held, both),
              emitted |-> <<CombatEvent("combat:ended", combatData)>>]

\* The fields of the CombatSystem as one value
Combat ==
    [activeCombats |-> activeCombats, activeKeys |-> activeKeys,
     combatPairs |-> combatPairs, combats |-> combats]

SetCombat(cs) ==
    /\ activeCombats' = cs.activeCombats
    /\ activeKeys' = cs.activeKeys
    /\ combatPairs' = cs.combatPairs
    /\ combats' = cs.combats

\* CombatSystem.startCombat({ attackerId, defenderId }) (CombatSystem.js:
\* 52-124)
StartCombat(attackerId, defenderId) ==
    /\ Len(combats) < MaxCombats
    /\ IF \/ attackerId \notin entities
          \/ defenderId \notin entities
          \/ "health" \notin ents[attackerId].components
          \/ "health" \notin ents[defenderId].components
       THEN /\ combatCall' = [emitted |-> <<>>]
            /\ UNCHANGED <<activeCombats, activeKeys, combatPairs, combats,
                           timers, ents>>
       ELSE LET combatData == [attackerId |-> attackerId,
                               defenderId |-> defenderId,
                               state |-> "preparing", result |-> "null"]
                c == Len(combats) + 1
            IN  /\ combats' = Append(combats, combatData)
                /\ activeCombats' =
                       SetKey(SetKey(activeCombats, attackerId, c), defenderId, c)
                /\ activeKeys' =
                       KeyOrderSet(KeyOrderSet(activeKeys, attackerId),
                                   defenderId)
                /\ combatPairs' =
                       SetKey(SetKey(combatPairs, attackerId, defenderId),
                              defenderId, attackerId)
                /\ ents' = [ents EXCEPT
                       ![attackerId] = EntityAddComponent(@, "inCombat"),
                       ![defenderId] = EntityAddComponent(@, "inCombat")]
                /\ combatCall' =
                       [emitted |-> <<CombatEvent("combat:started", combatData)>>]
                /\ timers' = timers \cup
                       {[combat |-> c, attackerId |-> attackerId,
                         defenderId |-> defenderId]}
    /\ UNCHANGED <<entities, entitiesByTag, entitiesByComponent, busVars,
                   worldVars, objVars, talentVars, invVars, partyVars, lastVars>>

\* The callback of the oldest pending setTimeout of startCombat runs
\* (CombatSystem.js:117-123); combatData, attackerId and defenderId are
\* those of its closure
TimerFires(t) ==
    /\ t \in timers
    /\ \A u \in timers : t.combat <= u.combat
    /\ timers' = timers \ {t}
    /\ IF t.attackerId \in DOMAIN activeCombats
       THEN /\ combats' = [combats EXCEPT ![t.combat].state = "active"]
            /\ combatCall' =
                   [emitted |-> <<CombatEvent("combat:active", combats[t.combat])>>]
       ELSE /\ combatCall' = [emitted |-> <<>>]
            /\ UNCHANGED combats
    /\ UNCHANGED <<activeCombats, activeKeys, combatPairs, busVars, emVars,
                   worldVars, objVars, talentVars, invVars, partyVars, lastVars>>

\* CombatSystem.fleeCombat({ entityId }) (CombatSystem.js:319-332)
FleeCombat(entityId) ==
    /\ IF \/ entityId \notin DOMAIN activeCombats
          \/ combats[activeCombats[entityId]].state # "active"
       THEN /\ combatCall' = [emitted |-> <<>>]
            /\ UNCHANGED <<activeCombats, activeKeys, combatPairs, combats, ents>>
       ELSE LET c == activeCombats[entityId]
                cs == [Combat EXCEPT !.combats[c].state = "ending",
                                     !.combats[c].result = "fled"]
                r == EndCombatOn(cs, ents, entities, entityId)
            IN  /\ SetCombat(r.cs)
                /\ ents' = r.ents
                /\ combatCall' =
                       [emitted |-> <<CombatEvent("combat:fled", cs.combats[c])>>
                                    \o r.emitted]
    /\ UNCHANGED <<timers, entities, entitiesByTag, entitiesByComponent, busVars,
                   worldVars, objVars, talentVars, invVars, partyVars, lastVars>>

\* entityManager.removeEntity(id) of a held entity; its entity:destroyed
\* event is dispatched to this.endCombat(data.entityId) (CombatSystem.js:44-46)
EntityDestroyed(id) ==
    /\ id \in entities
    /\ LET em == RemoveEntityFrom(Manager, id)
           r == EndCombatOn(Combat, em.ents, em.entities, id)
       IN  /\ SetManager([em EXCEPT !.ents = r.ents])
           /\ SetCombat(r.cs)
           /\ combatCall' = [emitted |-> r.emitted]
    /\ UNCHANGED <<timers, busVars, carried, loopVars, objVars, talentVars,
                   invVars, partyVars, lastVars>>

\* result === 'victory' && attacker && defender (CombatSystem.js:287)
VictoryOver(es, combatData) ==
    /\ combatData.result = "victory"
    /\ combatData.attackerId \in es
    /\ combatData.defenderId \in es

\* The CombatSystem, the EntityManager and the events of a call in progress
\* as one value
CombatWorld(cs, em, emitted) == [cs |-> cs, em |-> em, emitted |-> emitted]

\* What the clock and the tug position decide in checkCombatEnd
\* (CombatSystem.js:266-276): null, defeat or victory
Results == {"null", "defeat", "victory"}

\* CombatSystem.checkCombatEnd(combatData) (CombatSystem.js:263-313) for the
\* combatData of index c; endCombat is called with the attacker's id and
\* ends the combat that is registered for the attacker
CheckCombatEndOn(w, c, result) ==
    IF w.cs.combats[c].state # "active" \/ result = "null" THEN w
    ELSE LET combatData == [w.cs.combats[c] EXCEPT !.state = "ending",
                                                   !.result = result]
             cs == [w.cs EXCEPT !.combats[c] = combatData]
             won == VictoryOver(w.em.entities, combatData)
             em == IF won THEN ScheduleDestroyOn(w.em, combatData.defenderId)
                   ELSE w.em
             r == EndCombatOn(cs, em.ents, em.entities, combatData.attackerId)
             outcome == IF won
                        THEN <<CombatEvent("combat:victory", combatData)>>
                        ELSE IF result = "defeat"
                        THEN <<CombatEvent("combat:defeat", combatData)>>
                        ELSE <<>>
         IN  CombatWorld(r.cs, [em EXCEPT !.ents = r.ents],
                         w.emitted \o outcome \o r.emitted)

\* The callback of this.activeCombats.forEach in update (CombatSystem.js:
\* 192-206) for the keys from the i-th of order on: a key deleted by an
\* earlier callback is not visited; a combat is reached by its attacker's
\* key, and updateTugPosition emits combat:tug-update before checkCombatEnd
RECURSIVE UpdateFrom(_, _, _, _)
UpdateFrom(w, order, i, outcome) ==
    IF i > Len(order) THEN w
    ELSE LET entityId == order[i]
         IN  IF entityId \notin DOMAIN w.cs.activeCombats
             THEN UpdateFrom(w, order, i + 1, outcome)
             ELSE LET c == w.cs.activeCombats[entityId]
                      combatData == w.cs.combats[c]
                  IN  IF \/ combatData.attackerId # entityId
                         \/ combatData.state # "active"
                      THEN UpdateFrom(w, order, i + 1, outcome)
                      ELSE UpdateFrom(
                               CheckCombatEndOn(
                                   [w EXCEPT !.emitted = Append(@,
                                       CombatEvent("combat:tug-update",
                                                   combatData))],
                                   c, outcome[c]),
                               order, i + 1, outcome)

\* Writes the outcome of a call into the CombatSystem
SetCombatWorld(w) ==
    /\ SetManager(w.em)
    /\ SetCombat(w.cs)
    /\ combatCall' = [emitted |-> w.emitted]

\* CombatSystem.update(deltaTime) (CombatSystem.js:188-207); outcome gives
\* for each combat what checkCombatEnd decides when the call reaches it
CombatUpdate(outcome) ==
    /\ SetCombatWorld(
           UpdateFrom(CombatWorld(Combat, Manager, <<>>), activeKeys, 1,
                      outcome))
    /\ UNCHANGED <<timers, busVars, carried, loopVars, objVars, talentVars,
                   invVars, partyVars, lastVars>>

\* CombatSystem.handlePlayerClick (CombatSystem.js:130-182), the handler of
\* player:click-attack and player:attack; one entity has the tag player.
\* The click leaves the tug position above 0, so checkCombatEnd decides a
\* victory or nothing.
HandlePlayerClick(result) ==
    /\ result \in {"null", "victory"}
    /\ LET players == GetEntitiesByTag("player")
           w == CombatWorld(Combat, Manager, <<>>)
       IN  IF players = {} THEN SetCombatWorld(w)
           ELSE LET player == CHOOSE id \in players : TRUE
                IN  IF \/ player \notin DOMAIN activeCombats
                       \/ combats[activeCombats[player]].state # "active"
                    THEN SetCombatWorld(w)
                    ELSE LET c == activeCombats[player]
                         IN  SetCombatWorld(CheckCombatEndOn(
                                 [w EXCEPT !.emitted =
                                     <<CombatEvent("combat:tug-update",
                                                   combats[c]),
                                       CombatEvent("combat:player-click",
                                                   combats[c])>>],
                                 c, result))
    /\ UNCHANGED <<timers, busVars, carried, loopVars, objVars, talentVars,
                   invVars, partyVars, lastVars>>

\* combatIds.forEach(id => this.endCombat(id)) for the ids from the i-th on
\* (CombatSystem.js:411-413)
RECURSIVE EndAllFrom(_, _, _)
EndAllFrom(w, ids, i) ==
    IF i > Len(ids) THEN w
    ELSE LET r == EndCombatOn(w.cs, w.em.ents, w.em.entities, ids[i])
         IN  EndAllFrom(CombatWorld(r.cs, [w.em EXCEPT !.ents = r.ents],
                                    w.emitted \o r.emitted),
                        ids, i + 1)

\* CombatSystem.destroy() (CombatSystem.js:409-418); the subscriptions and
\* the pending timers stay
DestroyCombatSystem ==
    /\ LET w == EndAllFrom(CombatWorld(Combat, Manager, <<>>), activeKeys, 1)
       IN  SetCombatWorld([w EXCEPT !.cs.activeCombats = NoMap,
                                    !.cs.activeKeys = <<>>,
                                    !.cs.combatPairs = NoMap])
    /\ UNCHANGED <<timers, busVars, carried, loopVars, objVars, talentVars,
                   invVars, partyVars, lastVars>>

CombatNext ==
    \/ \E a, d \in 1..(MaxEntities + 1) : a # d /\ StartCombat(a, d)
    \/ \E t \in timers : TimerFires(t)
    \/ \E id \in 1..(MaxEntities + 1) : FleeCombat(id)
    \/ \E id \in 1..(MaxEntities + 1) : EntityDestroyed(id)
    \/ \E outcome \in [1..Len(combats) -> Results] : CombatUpdate(outcome)
    \/ \E result \in {"null", "victory"} : HandlePlayerClick(result)
    \/ DestroyCombatSystem

CombatSpec == CombatSpecInit /\ [][CombatNext]_vars

\* ============================================= CombatSystem: a victory
\* The configuration of SweepSpec with a CombatSystem: the manager's and the
\* CombatSystem's listeners are subscribed by their constructors, an observer
\* f is subscribed to entity:destroyed, combat:victory, combat:defeat and
\* combat:ended, and entity 1 is in an active combat against entity 2.  The
\* game loop calls checkCombatEnd (from CombatSystem.update) and
\* entityManager.update while the bus is idle; a running observer schedules
\* entities.  The history counts the calls made from here on.
CombatListener == HandlerObj(PlainCallback("endCombat"), "null", 2)

Observed == {"entity:destroyed", "combat:victory", "combat:defeat", "combat:ended"}

\* The other subscriptions of CombatSystem.setupEventListeners
\* (CombatSystem.js:32-41): the event and the method its handler calls
CombatSubscriptions ==
    [e \in {"player:click-attack", "player:attack", "combat:start",
            "combat:flee", "player:flee"} |->
        CASE e = "player:click-attack" ->
                 <<HandlerObj(PlainCallback("handlePlayerClick"), "null", 5)>>
          [] e = "player:attack" ->
                 <<HandlerObj(PlainCallback("handlePlayerClick"), "null", 6)>>
          [] e = "combat:start" ->
                 <<HandlerObj(PlainCallback("startCombat"), "null", 7)>>
          [] e = "combat:flee" ->
                 <<HandlerObj(PlainCallback("fleeCombat"), "null", 8)>>
          [] e = "player:flee" ->
                 <<HandlerObj(PlainCallback("fleeCombat"), "null", 9)>>]

\* startCombat attaches inCombat with entity.addComponent (CombatSystem.js:
\* 106-107), which does not reach the manager's index: entitiesByComponent
\* is as createEntity left it
VictoryInit ==
    /\ events = [e \in Observed \cup {"entity:destroy"}
                       \cup DOMAIN CombatSubscriptions |->
                    IF e \in DOMAIN CombatSubscriptions
                    THEN CombatSubscriptions[e]
                    ELSE IF e = "entity:destroy" THEN <<ManagerListener>>
                    ELSE IF e = "entity:destroyed"
                    THEN <<CombatListener, HandlerObj(PlainCallback("f"), "null", 3)>>
                    ELSE <<HandlerObj(PlainCallback("f"), "null", 4)>>]
    /\ eventQueue = <<>>
    /\ isProcessing = FALSE
    /\ stack = <<>>
    /\ unsubs = <<>>
    /\ nEmits = 0
    /\ nRegs = 0
    /\ shifts = [a \in 1..MaxCalls |-> 0]
    /\ dropped = {}
    /\ threw = {}
    /\ registered = <<>>
    /\ invoked = <<>>
    /\ fired = {}
    /\ root = 0
    /\ ents = [id \in 1..MaxEntities |->
                  [NewEntityObj EXCEPT
                      !.components = IF id \in {1, 2} THEN {"health", "inCombat"}
                                     ELSE {"health"}]]
    /\ entities = 1..MaxEntities
    /\ entitiesByTag = NoIndex
    /\ entitiesByComponent = [c \in {"health"} |-> 1..MaxEntities]
    /\ WorldVarsInit /\ ObjInit /\ TalentInit /\ InvInit /\ PartyInit
    /\ LastInit
    /\ combats = <<[attackerId |-> 1, defenderId |-> 2, state |-> "active",
                    result |-> "null"]>>
    /\ activeCombats = [id \in {1, 2} |-> 1]
    /\ activeKeys = <<1, 2>>
    /\ combatPairs = [id \in {1, 2} |-> 3 - id]
    /\ timers = {}
    /\ combatCall = [emitted |-> <<>>]

\* The registered combats that checkCombatEnd has set to 'ending' and not
\* yet ended: the call is between its emit and its endCombat
Ending ==
    {c \in {activeCombats[id] : id \in DOMAIN activeCombats} :
        combats[c].state = "ending"}

\* CombatSystem.checkCombatEnd(combatData) (CombatSystem.js:263-313), up to
\* and including its emit of combat:victory or combat:defeat; result is what
\* the clock and the tug position decide
CheckCombatEnd(c, result) ==
    /\ DriverFree
    /\ Ending = {}
    /\ c \in {activeCombats[id] : id \in DOMAIN activeCombats}
    /\ combats[c].state = "active"
    /\ LET combatData == [combats[c] EXCEPT !.state = "ending", !.result = result]
       IN  /\ combats' = [combats EXCEPT ![c] = combatData]
           /\ IF VictoryOver(entities, combatData)
              THEN /\ Emit("combat:victory")
                   /\ carried' = Append(carried,
                          CombatEvent("combat:victory", combatData))
              ELSE IF result = "defeat"
              THEN /\ Emit("combat:defeat")
                   /\ carried' = Append(carried,
                          CombatEvent("combat:defeat", combatData))
              ELSE UNCHANGED <<busVars, carried>>
    /\ UNCHANGED <<activeCombats, activeKeys, combatPairs, timers, combatCall,
                   emVars, entitiesToDestroy, loopVars, objVars, talentVars,
                   invVars, partyVars, lastVars>>

\* checkCombatEnd after its emit has returned: scheduleDestroy of the loser
\* of a victory, then this.endCombat(combatData.attackerId).  No entity is
\* removed between the two halves, so the test of line 287 has the same
\* outcome here.
CheckCombatEndRest(c) ==
    /\ Idle
    /\ c \in Ending
    /\ LET combatData == combats[c]
           em == IF VictoryOver(entities, combatData)
                 THEN ScheduleDestroyOn(Manager, combatData.defenderId)
                 ELSE Manager
           r == EndCombatOn(Combat, em.ents, em.entities, combatData.attackerId)
       IN  /\ SetManager([em EXCEPT !.ents = r.ents])
           /\ SetCombat(r.cs)
           /\ Emit("combat:ended")
           /\ carried' = Append(carried, r.emitted[1])
    /\ UNCHANGED <<timers, combatCall, loopVars, objVars, talentVars, invVars,
                   partyVars, lastVars>>

\* The CombatSystem's entity:destroyed listener runs and returns:
\* this.endCombat(data.entityId); its emit of combat:ended is made during a
\* drain and only joins the queue
RunCombatListener ==
    /\ stack # <<>>
    /\ Top.kind = "handler"
    /\ Top.handler.callback.fn = "endCombat"
    /\ LET r == EndCombatOn(Combat, ents, entities, carried[Top.args].entity)
       IN  /\ SetCombat(r.cs)
           /\ ents' = r.ents
           /\ stack' = Advance(Pop(stack))
           /\ IF r.emitted = <<>>
              THEN UNCHANGED <<eventQueue, nEmits, carried>>
              ELSE /\ nEmits + nRegs < MaxCalls
                   /\ nEmits' = nEmits + 1
                   /\ eventQueue' = Append(eventQueue,
                          [eventName |-> "combat:ended", args |-> nEmits + 1])
                   /\ carried' = Append(carried, r.emitted[1])
    /\ UNCHANGED <<events, isProcessing, unsubs, nRegs, hist, entities,
                   entitiesByTag, entitiesByComponent, entitiesToDestroy,
                   timers, combatCall, loopVars, objVars, talentVars, invVars,
                   partyVars, lastVars>>

VictoryNext ==
    \/ \E c \in 1..Len(combats), result \in {"victory", "defeat"} :
          CheckCombatEnd(c, result)
    \/ \E c \in 1..Len(combats) : CheckCombatEndRest(c)
    \/ ~Idle /\ CallScheduleDestroy
    \/ \E id \in 1..MaxEntities : Ending = {} /\ DirectRemove(id)
    \/ Ending = {} /\ BeginSweep(TRUE)
    \/ SweepVisit
    \/ SweepEnd
    \/ ProcessQueueShift
    \/ InvokeHandler
    \/ ObserverReturn
    \/ RunCombatListener
    \/ ProcessQueueExit

VictorySpec == VictoryInit /\ [][VictoryNext]_vars

\* ===================================================== PetSystem: taming
\* One owner and MaxCreatures wild creatures, all held by the manager.  Every
\* startTaming call that passes its checks sets a timer of its own; the
\* timers have the same delay, so their callbacks run in the order they
\* were set.  A callback always ends in completeTaming (nothing sets
\* tamingData.interrupted), and pet:complete-taming reaches completeTaming
\* with any payload at any time; success is the outcome of Math.random().
Owners == {"hero"}

PetSpecInit ==
    /\ BusInit /\ EMInit /\ WorldVarsInit /\ ObjInit /\ TalentInit /\ InvInit
    /\ PartyInit /\ CombatInit /\ LastInit

\* this.petOwnership.get(ownerId) || new Set()
OwnedPets(ownership, ownerId) ==
    IF ownerId \in DOMAIN ownership THEN ownership[ownerId] ELSE {}

\* PetSystem.startTaming({ tamerId, targetId }) (InventorySystem.js:659-712)
StartTaming(tamerId, targetId) ==
    /\ Len(tamingTimers) < MaxTamingTimers
    /\ IF "petData" \notin creatures[targetId].components
       THEN /\ petCall' = [emitted |-> <<"pet:error">>]
            /\ UNCHANGED <<creatures, tamingTimers>>
       ELSE IF Cardinality(OwnedPets(petOwnership, tamerId)) >= MaxPetsPerPlayer
       THEN /\ petCall' = [emitted |-> <<"pet:error">>]
            /\ UNCHANGED <<creatures, tamingTimers>>
       ELSE /\ creatures' = [creatures EXCEPT
                                ![targetId].components = @ \cup {"beingTamed"}]
            /\ petCall' = [emitted |-> <<"pet:taming-started">>]
            /\ tamingTimers' = Append(tamingTimers,
                   [tamerId |-> tamerId, targetId |-> targetId])
    /\ UNCHANGED <<petOwnership, petData, notPet>>

\* PetSystem.convertToPet(entityId, ownerId) (InventorySystem.js:752-813);
\* the owner has no faction component
ConvertToPet(cs, ownership, data, entityId, ownerId) ==
    [creatures |-> [cs EXCEPT
         ![entityId].tags = (@ \ {"hostile", "enemy"}) \cup {"pet", "friendly"},
         ![entityId].components = (@ \cup {"pet", "petAI"}) \ {"beingTamed"}],
     petOwnership |->
         [o \in DOMAIN ownership \cup {ownerId} |->
             OwnedPets(ownership, o) \cup (IF o = ownerId THEN {entityId} ELSE {})],
     petData |-> SetKey(data, entityId, ownerId)]

\* PetSystem.completeTaming({ tamerId, targetId }) (InventorySystem.js:
\* 718-745)
CompleteTaming(tamerId, targetId, success) ==
    IF "beingTamed" \notin creatures[targetId].components
    THEN /\ petCall' = [emitted |-> <<>>]
         /\ UNCHANGED <<creatures, petOwnership, petData>>
    ELSE IF ~success
    THEN /\ petCall' = [emitted |-> <<"pet:taming-failed">>]
         /\ creatures' = [creatures EXCEPT
                             ![targetId].components = @ \ {"beingTamed"}]
         /\ UNCHANGED <<petOwnership, petData>>
    ELSE LET r == ConvertToPet(creatures, petOwnership, petData, targetId,
                               tamerId)
         IN  /\ creatures' = r.creatures
             /\ petOwnership' = r.petOwnership
             /\ petData' = r.petData
             /\ petCall' = [emitted |-> <<"pet:tamed">>]

\* A pet:complete-taming event is dispatched to completeTaming
CompleteTamingEvent(tamerId, targetId, success) ==
    /\ CompleteTaming(tamerId, targetId, success)
    /\ UNCHANGED <<tamingTimers, notPet>>

\* The callback of the oldest pending setTimeout of startTaming runs
\* (InventorySystem.js:707-711)
TamingTimerFires(success) ==
    /\ tamingTimers # <<>>
    /\ tamingTimers' = Tail(tamingTimers)
    /\ CompleteTaming(Head(tamingTimers).tamerId, Head(tamingTimers).targetId,
                      success)
    /\ UNCHANGED notPet

\* PetSystem.releasePet({ ownerId, petId }) (InventorySystem.js:819-851)
ReleasePet(ownerId, petId) ==
    /\ IF petId \notin OwnedPets(petOwnership, ownerId)
       THEN /\ petCall' = [emitted |-> <<>>]
            /\ UNCHANGED <<creatures, petOwnership, petData>>
       ELSE /\ petOwnership' = [petOwnership EXCEPT ![ownerId] = @ \ {petId}]
            /\ petData' = DeleteKeys(petData, {petId})
            /\ creatures' = [creatures EXCEPT
                   ![petId].components = (@ \ {"pet", "petAI"}) \cup {"faction"},
                   ![petId].tags = (@ \ {"pet", "friendly"}) \cup {"neutral"}]
            /\ petCall' = [emitted |-> <<"pet:released">>]
    /\ UNCHANGED <<tamingTimers, notPet>>

\* PetSystem.handlePetDeath({ entityId }) (InventorySystem.js:1194-1211),
\* the handler of entity:died: the pet leaves its owner's set; its petInfo,
\* its components and its tags stay
HandlePetDeath(entityId) ==
    /\ IF entityId \notin DOMAIN petData
       THEN /\ petCall' = [emitted |-> <<>>]
            /\ UNCHANGED petOwnership
       ELSE /\ petOwnership' =
                   IF petData[entityId] \in DOMAIN petOwnership
                   THEN [petOwnership EXCEPT ![petData[entityId]] = @ \ {entityId}]
                   ELSE petOwnership
            /\ petCall' = [emitted |-> <<"pet:died">>]
    /\ UNCHANGED <<petData, creatures, tamingTimers, notPet>>

\* PetSystem.destroy() (InventorySystem.js:1413-1416)
DestroyPetSystem ==
    /\ petOwnership' = NoMap
    /\ petData' = NoMap
    /\ petCall' = [emitted |-> <<>>]
    /\ UNCHANGED <<creatures, tamingTimers, notPet>>

PetNext ==
    \/ \E o \in Owners, c \in 1..MaxCreatures : StartTaming(o, c)
    \/ \E o \in Owners, c \in 1..MaxCreatures, success \in BOOLEAN :
          CompleteTamingEvent(o, c, success)
    \/ \E success \in BOOLEAN : TamingTimerFires(success)
    \/ \E o \in Owners, c \in 1..MaxLeaving : ReleasePet(o, c)
    \/ \E c \in 1..MaxLeaving : HandlePetDeath(c)
    \/ DestroyPetSystem

PetSpec == PetSpecInit /\ [][PetNext]_vars

\* ================================================= PartySystem: members
\* The party events are dispatched to the handlers of the PartySystem; the
\* entities named are held by the manager.  A party id is party_<Date.now()>,
\* and the clock does not go back between two createParty calls.
GroupSpecInit ==
    /\ BusInit /\ EMInit /\ WorldVarsInit /\ ObjInit /\ TalentInit /\ InvInit
    /\ PartyInit /\ CombatInit /\ LastInit

\* members.indexOf(entityId) > -1
IsMember(party, entityId) ==
    \E i \in 1..Len(party.members) : party.members[i] = entityId

\* PartySystem.createParty({ leaderId }) (part_001:135-169) at time now
CreateParty(leaderId, now) ==
    /\ now \in partyClock..MaxPartyTimes
    /\ partyClock' = now
    /\ parties' = SetKey(parties, now,
                         [leaderId |-> leaderId, members |-> <<leaderId>>])
    /\ entityParties' = SetKey(entityParties, leaderId, now)
    /\ partyComps' = [partyComps EXCEPT ![leaderId].partyRole =
                         [partyId |-> now, role |-> "leader"]]
    /\ partyCall' = [emitted |-> <<"party:created">>]
    /\ UNCHANGED notGroup

\* PartySystem.joinParty({ entityId, partyId }) (part_001:175-223); entity 1
\* has the tag player
JoinParty(entityId, partyId) ==
    /\ IF partyId \notin DOMAIN parties
       THEN /\ partyCall' = [emitted |-> <<>>]
            /\ UNCHANGED <<parties, entityParties, partyComps>>
       ELSE IF \/ Len(parties[partyId].members) >= MaxPartySize
               \/ entityId \in DOMAIN entityParties
       THEN /\ partyCall' = [emitted |-> <<"party:error">>]
            /\ UNCHANGED <<parties, entityParties, partyComps>>
       ELSE /\ parties' = [parties EXCEPT ![partyId].members = Append(@, entityId)]
            /\ entityParties' = SetKey(entityParties, entityId, partyId)
            /\ partyComps' = [partyComps EXCEPT ![entityId] =
                   [partyRole |-> [partyId |-> partyId, role |-> "member"],
                    partyAI |-> IF entityId = 1 THEN @.partyAI ELSE TRUE]]
            /\ partyCall' = [emitted |-> <<"party:member-joined">>]
    /\ UNCHANGED <<partyClock, notGroup>>

\* PartySystem.disbandParty({ partyId }) on the fields of the system
\* (part_001:276-299)
DisbandPartyOn(g, partyId) ==
    IF partyId \notin DOMAIN g.parties THEN [g EXCEPT !.emitted = <<>>]
    ELSE LET gone == {g.parties[partyId].members[i] :
                         i \in 1..Len(g.parties[partyId].members)}
         IN  [parties |-> DeleteKeys(g.parties, {partyId}),
              entityParties |-> DeleteKeys(g.entityParties, gone),
              partyComps |-> [e \in DOMAIN g.partyComps |->
                                 IF e \in gone THEN NoPartyComps
                                 ELSE g.partyComps[e]],
              emitted |-> <<"party:disbanded">>]

\* The fields of the PartySystem as one value
Group ==
    [parties |-> parties, entityParties |-> entityParties,
     partyComps |-> partyComps, emitted |-> <<>>]

SetGroup(g) ==
    /\ parties' = g.parties
    /\ entityParties' = g.entityParties
    /\ partyComps' = g.partyComps
    /\ partyCall' = [emitted |-> g.emitted]

DisbandParty(partyId) ==
    /\ SetGroup(DisbandPartyOn(Group, partyId))
    /\ UNCHANGED <<partyClock, notGroup>>

\* party.members.indexOf(entityId), counted from 1; 0 when absent
IndexOf(members, entityId) ==
    LET hits == {i \in 1..Len(members) : members[i] = entityId}
    IN  IF hits = {} THEN 0 ELSE CHOOSE i \in hits : \A j \in hits : i <= j

\* if (index > -1) party.members.splice(index, 1)
RemoveMember(members, entityId) ==
    IF IndexOf(members, entityId) # 0
    THEN Splice(members, IndexOf(members, entityId))
    ELSE members

\* PartySystem.leaveParty({ entityId }) (part_001:229-270)
LeaveParty(entityId) ==
    /\ IF \/ entityId \notin DOMAIN entityParties
          \/ entityParties[entityId] \notin DOMAIN parties
       THEN /\ partyCall' = [emitted |-> <<>>]
            /\ UNCHANGED <<parties, entityParties, partyComps>>
       ELSE LET partyId == entityParties[entityId]
                party == parties[partyId]
                members == RemoveMember(party.members, entityId)
                left == [Group EXCEPT
                            !.parties[partyId].members = members,
                            !.entityParties = DeleteKeys(@, {entityId}),
                            !.partyComps[entityId] = NoPartyComps]
                after ==
                    IF members = <<>> THEN DisbandPartyOn(left, partyId)
                    ELSE IF entityId = party.leaderId
                    THEN [left EXCEPT
                             !.parties[partyId].leaderId = members[1],
                             !.partyComps[members[1]].partyRole =
                                 IF @.role = "none" THEN @
                                 ELSE [@ EXCEPT !.role = "leader"]]
                    ELSE left
            IN  SetGroup([after EXCEPT
                             !.emitted = @ \o <<"party:member-left">>])
    /\ UNCHANGED <<partyClock, notGroup>>

\* PartySystem.destroy() (part_001:742-745); the components of the members
\* stay
DestroyPartySystem ==
    /\ parties' = NoMap
    /\ entityParties' = NoMap
    /\ partyCall' = [emitted |-> <<>>]
    /\ UNCHANGED <<partyComps, partyClock, notGroup>>

GroupNext ==
    \/ DestroyPartySystem
    \/ \E e \in 1..(MaxEntities + 1), now \in 1..MaxPartyTimes : CreateParty(e, now)
    \/ \E e \in 1..(MaxEntities + 1), p \in 1..MaxPartyTimes : JoinParty(e, p)
    \/ \E e \in 1..(MaxEntities + 1) : LeaveParty(e)
    \/ \E p \in 1..MaxPartyTimes : DisbandParty(p)

GroupSpec == GroupSpecInit /\ [][GroupNext]_vars

\* ================================================ GameStateManager: states
\* A GameStateManager after registerState for the states of Registered.
\* changeState, pushState and popState are async functions: a call runs to
\* its first await, and each await suspends it until a later turn of the
\* event loop, so calls interleave at their awaits.  A callback of a state
\* (enter, exit, pause, resume) returns, or throws or returns a rejected
\* promise; either failure ends the async function at that statement.
Registered == {"menu", "game"}

StateNames == Registered \cup {"bogus"}

GsmSpecInit ==
    /\ BusInit /\ EMInit /\ WorldVarsInit /\ ObjInit /\ TalentInit /\ InvInit
    /\ PartyInit /\ CombatInit /\ LastInit

Task(op, stateName, pc) == [op |-> op, stateName |-> stateName, pc |-> pc]

\* The await of a callback's result: the call is suspended there, or the
\* callback failed
Await(pc, ok) == IF ok THEN pc ELSE "failed"

\* if (this.currentState)
Truthy(state) == state \notin {"null", "undefined"}

\* changeState(stateName) up to its first await (GameStateManager.js:36-66);
\* ok is the outcome of the callback it calls
ChangeState(stateName, ok) ==
    /\ Len(gsmTasks) < MaxStateCalls
    /\ gsmCall' = [emitted |-> <<>>]
    /\ IF stateName \notin Registered \/ transitioning
       THEN /\ gsmTasks' = Append(gsmTasks, Task("change", stateName, "returned"))
            /\ UNCHANGED <<currentState, previousState, transitioning>>
       ELSE /\ transitioning' = TRUE
            /\ IF Truthy(currentState)
               THEN /\ gsmTasks' = Append(gsmTasks,
                           Task("change", stateName, Await("afterExit", ok)))
                    /\ UNCHANGED <<currentState, previousState>>
               ELSE /\ previousState' = currentState
                    /\ currentState' = stateName
                    /\ gsmTasks' = Append(gsmTasks,
                           Task("change", stateName, Await("afterEnter", ok)))
    /\ UNCHANGED <<stateStack, notGsm>>

\* pushState(stateName) up to its first await (GameStateManager.js:73-92)
PushState(stateName, ok) ==
    /\ Len(gsmTasks) < MaxStateCalls
    /\ gsmCall' = [emitted |-> <<>>]
    /\ IF stateName \notin Registered
       THEN /\ gsmTasks' = Append(gsmTasks, Task("push", stateName, "returned"))
            /\ UNCHANGED currentState
       ELSE IF Truthy(currentState)
       THEN /\ gsmTasks' = Append(gsmTasks,
                   Task("push", stateName, Await("afterPause", ok)))
            /\ UNCHANGED currentState
       ELSE /\ currentState' = stateName
            /\ gsmTasks' = Append(gsmTasks,
                   Task("push", stateName, Await("afterEnter", ok)))
    /\ UNCHANGED <<previousState, transitioning, stateStack, notGsm>>

\* const previousStateName = this.stateStack.pop() and what follows it in
\* popState, up to the await of resume(), pc being where the call is then;
\* pop() of an empty array returns undefined, and the name popped is null
\* when pushState pushed this.currentState after a reset(): this.states.get
\* of either is undefined, and previousStateConfig.resume() is a TypeError
PopTop(pc, ok) ==
    IF stateStack = <<>>
    THEN /\ currentState' = "undefined"
         /\ stateStack' = stateStack
         /\ pc = "failed"
    ELSE LET previousStateName == stateStack[Len(stateStack)]
         IN  /\ currentState' = previousStateName
             /\ stateStack' = SubSeq(stateStack, 1, Len(stateStack) - 1)
             /\ pc = IF previousStateName \in Registered
                     THEN Await("afterResume", ok)
                     ELSE "failed"

\* popState() up to its first await (GameStateManager.js:97-116)
PopState(ok) ==
    /\ Len(gsmTasks) < MaxStateCalls
    /\ gsmCall' = [emitted |-> <<>>]
    /\ IF stateStack = <<>>
       THEN /\ gsmTasks' = Append(gsmTasks, Task("pop", "null", "returned"))
            /\ UNCHANGED <<currentState, stateStack>>
       ELSE IF Truthy(currentState)
       THEN /\ gsmTasks' = Append(gsmTasks,
                   Task("pop", "null", Await("afterExit", ok)))
            /\ UNCHANGED <<currentState, stateStack>>
       ELSE \E pc \in {"afterResume", "failed"} :
               /\ PopTop(pc, ok)
               /\ gsmTasks' = Append(gsmTasks, Task("pop", "null", pc))
    /\ UNCHANGED <<previousState, transitioning, notGsm>>

\* reset() (GameStateManager.js:189-195)
Reset ==
    /\ Len(gsmTasks) < MaxStateCalls
    /\ currentState' = "null"
    /\ previousState' = "null"
    /\ stateStack' = <<>>
    /\ transitioning' = FALSE
    /\ gsmTasks' = Append(gsmTasks, Task("reset", "null", "returned"))
    /\ gsmCall' = [emitted |-> <<>>]
    /\ UNCHANGED notGsm

Suspended(task) ==
    task.pc \in {"afterExit", "afterPause", "afterEnter", "afterResume"}

\* The i-th call goes on after its await, up to its next await or its end;
\* ok is the outcome of the callback it calls next
Resume(i, ok) ==
    /\ i \in 1..Len(gsmTasks)
    /\ Suspended(gsmTasks[i])
    /\ LET task == gsmTasks[i]
           to(pc) == gsmTasks' = [gsmTasks EXCEPT ![i].pc = pc]
       IN  CASE task.op = "change" /\ task.pc = "afterExit" ->
                    /\ gsmCall' = [emitted |-> <<"state:exit">>]
                    /\ previousState' = currentState
                    /\ currentState' = task.stateName
                    /\ to(Await("afterEnter", ok))
                    /\ UNCHANGED <<transitioning, stateStack>>
             [] task.op = "change" /\ task.pc = "afterEnter" ->
                    /\ gsmCall' = [emitted |-> <<"state:enter">>]
                    /\ transitioning' = FALSE
                    /\ to("done")
                    /\ UNCHANGED <<currentState, previousState, stateStack>>
             [] task.op = "push" /\ task.pc = "afterPause" ->
                    /\ gsmCall' = [emitted |-> <<>>]
                    /\ stateStack' = Append(stateStack, currentState)
                    /\ currentState' = task.stateName
                    /\ to(Await("afterEnter", ok))
                    /\ UNCHANGED <<previousState, transitioning>>
             [] task.op = "push" /\ task.pc = "afterEnter" ->
                    /\ gsmCall' = [emitted |-> <<"state:push">>]
                    /\ to("done")
                    /\ UNCHANGED <<currentState, previousState, transitioning,
                                   stateStack>>
             [] task.op = "pop" /\ task.pc = "afterExit" ->
                    /\ gsmCall' = [emitted |-> <<>>]
                    /\ \E pc \in {"afterResume", "failed"} :
                           PopTop(pc, ok) /\ to(pc)
                    /\ UNCHANGED <<previousState, transitioning>>
             [] task.op = "pop" /\ task.pc = "afterResume" ->
                    /\ gsmCall' = [emitted |-> <<"state:pop">>]
                    /\ to("done")
                    /\ UNCHANGED <<currentState, previousState, transitioning,
                                   stateStack>>
    /\ UNCHANGED notGsm

ResumeSome == \E i \in 1..MaxStateCalls, ok \in BOOLEAN : Resume(i, ok)

GsmNext ==
    \/ \E stateName \in StateNames, ok \in BOOLEAN : ChangeState(stateName, ok)
    \/ \E stateName \in StateNames, ok \in BOOLEAN : PushState(stateName, ok)
    \/ \E ok \in BOOLEAN : PopState(ok)
    \/ Reset
    \/ ResumeSome

\* Every suspended call is resumed: the event loop runs its continuations.
GsmSpec == GsmSpecInit /\ [][GsmNext]_vars /\ WF_vars(ResumeSome)

\* ============================================ CombatSystem: one combat
\* One combat of the player against an entity tagged enemy with power 1 and
\* an enemyData tier, followed through time.  Times are in ms; tugPosition
\* and the drain rate are in thousandths.  The game loop calls
\* CombatSystem.update(deltaTime) once per frame; the player, who has no
\* power component, clicks or flees between frames.  inActiveCombats tells
\* whether activeCombats holds the combat under its attacker and defender,
\* entities which of the two are in the EntityManager.  activeSince and
\* decidedAt are history: when the combat became active and when it was
\* decided.
DuelSpecInit ==
    /\ BusInit /\ EMInit /\ WorldVarsInit /\ ObjInit /\ TalentInit /\ InvInit
    /\ PartyInit /\ CombatInit /\ LastInit

\* this.config.combatStartDelay
CombatStartDelay == 1000

\* const combatDuration = 2000 + (defenderLevel * 1000)
CombatDuration(tier) == 2000 + (tier * 1000)

\* the tiers of the defender, and the frame times of the game loop
Tiers == {1, 4}

FrameTimes == {500, 1000}

\* combatData.drainRate = 0.15 + (enemyLevel * 0.08) + (enemyPower * 0.02),
\* in thousandths per second, for an enemy of power 1
DrainRate(tier) == 150 + (tier * 80) + 20

\* the attacker and the defender of the combat
DuelEntities == {"attacker", "defender"}

\* startCombat (CombatSystem.js:53-124) as far as the times go; it returns
\* at once when the attacker or the defender is not found
DuelStart(tier) ==
    /\ duel.state = "none"
    /\ duel' = IF ~(DuelEntities \subseteq duel.entities) THEN duel
               ELSE [duel EXCEPT !.state = "preparing", !.tier = tier,
                                 !.startTime = clock,
                                 !.endTime = clock + CombatDuration(tier),
                                 !.tugPosition = 1000,
                                 !.timerDue = clock + CombatStartDelay,
                                 !.timerPending = TRUE,
                                 !.inActiveCombats = TRUE]
    /\ UNCHANGED <<clock, notDuel>>

\* The start-delay timer fires, not before its delay is over; it does
\* nothing when activeCombats no longer has the attacker
\* (CombatSystem.js:117-123)
DuelTimerFires ==
    /\ duel.timerPending
    /\ clock >= duel.timerDue
    /\ duel' = IF duel.inActiveCombats
               THEN [duel EXCEPT !.timerPending = FALSE, !.state = "active",
                                 !.startTime = clock, !.activeSince = clock]
               ELSE [duel EXCEPT !.timerPending = FALSE]
    /\ UNCHANGED <<clock, notDuel>>

\* updateTugPosition (CombatSystem.js:244-257)
UpdateTugPosition(tug, tier, deltaTime) ==
    LET drained == tug - ((DrainRate(tier) * deltaTime) \div 1000)
    IN  IF drained < 0 THEN 0 ELSE IF drained > 1000 THEN 1000 ELSE drained

\* endCombat (CombatSystem.js:338-364) for the attacker or the defender:
\* the combat leaves activeCombats, its state and result stay
DuelEndCombat(d) ==
    IF ~d.inActiveCombats THEN d ELSE [d EXCEPT !.inActiveCombats = FALSE]

\* checkCombatEnd (CombatSystem.js:263-313) at time t, as far as the
\* decision goes; a decided combat is ended
CheckCombatEndAt(d, t) ==
    IF d.state # "active" THEN d
    ELSE IF d.tugPosition <= 0
    THEN DuelEndCombat([d EXCEPT !.state = "ending", !.result = "defeat",
                                 !.decidedAt = t])
    ELSE IF t >= d.endTime
    THEN DuelEndCombat([d EXCEPT !.state = "ending", !.result = "victory",
                                 !.decidedAt = t])
    ELSE d

\* deltaTime ms pass and the game loop calls CombatSystem.update(deltaTime)
\* (CombatSystem.js:188-207), which goes through activeCombats
Frame(deltaTime) ==
    /\ clock + deltaTime <= MaxTime
    /\ clock' = clock + deltaTime
    /\ duel' = IF ~duel.inActiveCombats \/ duel.state # "active" THEN duel
               ELSE CheckCombatEndAt(
                        [duel EXCEPT !.tugPosition =
                            UpdateTugPosition(@, duel.tier, deltaTime)],
                        clock + deltaTime)
    /\ UNCHANGED notDuel

\* handlePlayerClick (CombatSystem.js:130-182) as far as the decision
\* goes: the attacker is the entity tagged player; pushAmount = 0.08 +
\* (baseClickPower * 0.01), then checkCombatEnd
DuelClick ==
    /\ duel' = IF \/ "attacker" \notin duel.entities
                  \/ ~duel.inActiveCombats
                  \/ duel.state # "active"
               THEN duel
               ELSE CheckCombatEndAt(
                        [duel EXCEPT !.tugPosition =
                            IF @ + 90 > 1000 THEN 1000 ELSE @ + 90],
                        clock)
    /\ UNCHANGED <<clock, notDuel>>

\* fleeCombat (CombatSystem.js:319-332) of the attacker, as far as the
\* decision goes
DuelFlee ==
    /\ duel' = IF ~duel.inActiveCombats \/ duel.state # "active" THEN duel
               ELSE DuelEndCombat([duel EXCEPT !.state = "ending",
                                               !.result = "fled",
                                               !.decidedAt = clock])
    /\ UNCHANGED <<clock, notDuel>>

\* EntityManager.removeEntity(entityId) (ProgressionSystem.js:557-588) of
\* the attacker or the defender: its entity:destroyed event reaches the
\* listener of the CombatSystem (CombatSystem.js:44-46), which ends the
\* combat of the entity
DuelRemoveEntity(entityId) ==
    /\ duel' = IF entityId \notin duel.entities THEN duel
               ELSE DuelEndCombat([duel EXCEPT !.entities = @ \ {entityId}])
    /\ UNCHANGED <<clock, notDuel>>

\* destroy() (CombatSystem.js:409-418): every combat is ended and the maps
\* are cleared
DestroyDuelSystem ==
    /\ duel' = [DuelEndCombat(duel) EXCEPT !.inActiveCombats = FALSE]
    /\ UNCHANGED <<clock, notDuel>>

DuelNext ==
    \/ \E tier \in Tiers : DuelStart(tier)
    \/ DuelTimerFires
    \/ DuelClick
    \/ DuelFlee
    \/ \E deltaTime \in FrameTimes : Frame(deltaTime)
    \/ \E entityId \in DuelEntities : DuelRemoveEntity(entityId)
    \/ DestroyDuelSystem

DuelSpec == DuelSpecInit /\ [][DuelNext]_vars

\* ========================================= ProgressionSystem: experience
\* An EventBus, an EntityManager and a ProgressionSystem; the entities of
\* PartyMembers are held and have the progression component that
\* initializeProgression attaches; the first of them is handed XP and
\* spends the points of its levels.  The events of a call have no other
\* subscriber; xpQueue keeps those of the last call.
XPGains == {0, 30, 100, 500, 1400}

\* the stat names a caller passes: an own property of progression.stats
\* and an inherited name
StatNames == {"strength", "constructor"}

\* the talents a caller asks for here
XpTalents == {<<"strength", "ironGrip">>, <<"defense", "bogus">>}

XpSpecInit ==
    /\ BusInit /\ EMInit /\ WorldVarsInit /\ ObjInit /\ TalentInit /\ InvInit
    /\ PartyInit /\ CombatInit /\ LastInit

\* addExperience({ entityId, amount }) (ProgressionSystem.js:135-177)
AddExperienceCall(entityId, amount) ==
    /\ entityId \in DOMAIN progressions
    /\ progressions[entityId].level <= MaxLevel
    /\ LET r == AddExperience(progressions, <<>>, entityId, amount)
       IN  /\ progressions' = r.progressions
           /\ xpQueue' = r.queue
    /\ UNCHANGED <<xpProcessing, busVars, emVars, worldVars, objVars, talentVars,
                   invVars, combatVars, lastVars>>

\* resetProgression(entityId) (ProgressionSystem.js:444-467)
ResetProgression(entityId) ==
    /\ entityId \in DOMAIN progressions
    /\ progressions' = [progressions EXCEPT ![entityId] = NewProgression]
    /\ xpQueue' = <<XPEvent("progression:talents-updated", entityId, 0),
                    XPEvent("progression:reset", entityId, 0)>>
    /\ UNCHANGED <<xpProcessing, busVars, emVars, worldVars, objVars, talentVars,
                   invVars, combatVars, lastVars>>

\* ProgressionSystem.spendStatPoint for the entity (ProgressionSystem.js:
\* 253-293): the component afterwards and the names of the events emitted;
\* hasOwnProperty does not find an inherited name
SpendStatPoint(prog, statName) ==
    IF prog.statPoints <= 0
    THEN [progression |-> prog,
          emitted |-> <<"progression:error No stat points available">>]
    ELSE IF statName \notin DOMAIN prog.stats
    THEN [progression |-> prog,
          emitted |-> <<"progression:error Invalid stat name">>]
    ELSE [progression |-> [prog EXCEPT !.statPoints = @ - 1,
                                       !.stats[statName] = @ + 1],
          emitted |-> <<"progression:talents-updated",
                        "progression:stat-increased">>]

\* The events of the given names, all about one entity
XPEvents(names, entityId) ==
    [k \in 1..Len(names) |-> XPEvent(names[k], entityId, 0)]

\* spendStatPoint({ entityId, statName })
SpendStatPointCall(entityId, statName) ==
    /\ entityId \in DOMAIN progressions
    /\ LET r == SpendStatPoint(progressions[entityId], statName)
       IN  /\ progressions' = [progressions EXCEPT ![entityId] = r.progression]
           /\ xpQueue' = XPEvents(r.emitted, entityId)
    /\ UNCHANGED <<xpProcessing, busVars, emVars, worldVars, objVars, talentVars,
                   invVars, combatVars, lastVars>>

\* spendTalentPoint({ entityId, treeName, talentName }) (ProgressionSystem.js:
\* 183-247) on the component of a member
SpendTalentPointCall(entityId, treeName, talentName) ==
    /\ entityId \in DOMAIN progressions
    /\ LET r == SpendTalentPoint(progressions[entityId], treeName, talentName)
       IN  /\ progressions' = [progressions EXCEPT ![entityId] = r.progression]
           /\ xpQueue' = XPEvents(r.emitted, entityId)
    /\ UNCHANGED <<xpProcessing, busVars, emVars, worldVars, objVars, talentVars,
                   invVars, combatVars, lastVars>>

XpNext ==
    \/ \E amount \in XPGains : AddExperienceCall(PartyMembers[1], amount)
    \/ ResetProgression(PartyMembers[1])
    \/ \E statName \in StatNames : SpendStatPointCall(PartyMembers[1], statName)
    \/ \E t \in XpTalents : SpendTalentPointCall(PartyMembers[1], t[1], t[2])

XpSpec == XpSpecInit /\ [][XpNext]_vars

\* ------------------------------------------------------- claims: EventBus
Frames(kind) == {i \in 1..Len(stack) : stack[i].kind = kind}

\* The handler objects subscribed to e, by identity, in list order.
Regs(evts, e) ==
    IF e \in DOMAIN evts THEN [i \in 1..Len(evts[e]) |-> evts[e][i].reg] ELSE <<>>

Range(seq) == {seq[i] : i \in 1..Len(seq)}

IsPrefix(p, q) == Len(p) <= Len(q) /\ \A i \in 1..Len(p) : p[i] = q[i]

StrictlyIncreasing(seq) == \A i, j \in 1..Len(seq) : i < j => seq[i] < seq[j]

\* C1: entries are dispatched in the order of their emit() calls, and the
\* dispatch of a later entry (for instance one a handler emitted) begins
\* only when every handler of each earlier entry has returned: once entry b
\* has been shifted, every entry a emitted before it has been shifted (or
\* cleared away) and no frame of a's dispatch is left on the stack.
C1_FifoBreadthFirst ==
    \A a, b \in 1..MaxCalls :
        (a < b /\ shifts[b] >= 1) =>
            /\ shifts[a] >= 1 \/ a \in dropped
            /\ \A i \in 1..Len(stack) : stack[i].args # a

\* A handler of one event is running while another event that has
\* subscribers, emitted during this dispatch, waits in the queue.
C1_Witness ==
    /\ Len(stack) = 2
    /\ Top.kind = "handler"
    /\ \E i \in 1..Len(eventQueue) :
          /\ eventQueue[i].eventName # Top.eventName
          /\ eventQueue[i].eventName \in DOMAIN events

\* C2: dispatch is never re-entered: at most one processQueue activation and
\* at most one running handler exist, the activation is the bottom frame, and
\* isProcessing is true exactly while it exists.
C2_NoReentrantDispatch ==
    /\ Cardinality(Frames("processQueue")) <= 1
    /\ Cardinality(Frames("handler")) <= 1
    /\ Frames("processQueue") \subseteq {1}
    /\ isProcessing <=> (Frames("processQueue") # {})

\* A handler of a chained event (emitted during this drain) has itself made
\* an emit, which sits in the queue while the handler is still running.
C2_Witness ==
    /\ stack # <<>>
    /\ Top.kind = "handler"
    /\ Top.args > root
    /\ Top.called
    /\ \E i \in 1..Len(eventQueue) : eventQueue[i].args = nEmits

\* C3: within one dispatch the handlers are invoked in the order in which
\* on() registered them, and a handler runs only when all those invoked
\* before it have returned.
C3_RegistrationOrder ==
    /\ StrictlyIncreasing(invoked)
    /\ \A i \in Frames("handler") :
          invoked # <<>> /\ stack[i].handler.reg = invoked[Len(invoked)]

\* The second of two handlers of one event is running.
C3_Witness ==
    /\ stack # <<>>
    /\ Top.kind = "handler"
    /\ Len(invoked) = 2
    /\ Len(registered) >= 2

\* C4: a dispatch invokes exactly the handlers that were subscribed when it
\* began, whatever the handlers subscribe or unsubscribe meanwhile.
C4_SnapshotDispatch ==
    /\ IsPrefix(invoked, registered)
    /\ AtLoopHead => invoked = registered

\* A user handler starts running although it was unsubscribed from its event
\* earlier in this dispatch, and a handler subscribed later in this dispatch
\* is not run by it.
C4_WitnessUnsubscribed ==
    /\ stack # <<>>
    /\ Top.kind = "handler"
    /\ ~Top.called
    /\ Top.handler.callback.wrap = 0
    /\ Top.eventName \in DOMAIN events
    /\ Top.handler.reg \notin Range(Regs(events, Top.eventName))

\* C5: a throwing handler stops nothing: the handlers after it are invoked,
\* the throw does not leave processQueue, and when the outermost emit has
\* returned the queue is empty, isProcessing is false and every entry was
\* shifted (or cleared away).
C5_ThrowIsolated ==
    /\ (AtLoopHead /\ Top.args \in threw) => invoked = registered
    /\ (threw # {} /\ ~Idle) => stack[1].kind = "processQueue"
    /\ (threw # {} /\ Idle) =>
          /\ ~isProcessing
          /\ eventQueue = <<>>
          /\ \A a \in 1..nEmits : shifts[a] >= 1 \/ a \in dropped

\* The outermost emit has returned after a drain in which a handler threw
\* and an entry emitted later was still dispatched.
C5_Witness ==
    /\ Idle
    /\ \E a \in threw, b \in 1..MaxCalls : a < b /\ shifts[b] = 1

\* C6: when the outermost emit has returned, the queue is empty, isProcessing
\* is false, and every entry enqueued so far that clear() did not throw away
\* was dispatched exactly once.
C6_DrainCompletes ==
    /\ \A a \in 1..MaxCalls : shifts[a] <= 1
    /\ Idle =>
          /\ eventQueue = <<>>
          /\ ~isProcessing
          /\ \A a \in 1..nEmits : a \notin dropped => shifts[a] = 1

\* The outermost emit has returned after a drain in which handlers emitted
\* two further events, nothing having been cleared.
C6_Witness ==
    /\ Idle
    /\ dropped = {}
    /\ root >= 1
    /\ nEmits >= root + 2

\* C7 (as claimed): no onceWrapper is invoked a second time.
C7_OnceAtMostOnce ==
    [][\A r \in 1..MaxCalls :
          (/\ Len(stack') = Len(stack) + 1
           /\ stack'[Len(stack')].kind = "handler"
           /\ stack'[Len(stack')].handler.callback.wrap = r)
          => r \notin fired]_vars

\* The seq without the elements equal to r.
Without(seq, r) == SelectSeq(seq, LAMBDA x : x # r)

\* The r-th registration is subscribed behind an earlier registration of the
\* same callback and context, with a different handler between the two.
LaterDuplicate(r) ==
    LET e == unsubs[r].eventName
        hs == IF e \in DOMAIN events THEN events[e] ELSE <<>>
    IN  \E i, j, k \in 1..Len(hs) :
            /\ i < j /\ j < k
            /\ hs[k].reg = r
            /\ hs[i].callback = hs[k].callback /\ hs[i].context = hs[k].context
            /\ ~(hs[j].callback = hs[k].callback /\ hs[j].context = hs[k].context)

\* C8 (as claimed): in that case the function returned by the r-th on() call
\* removes the r-th registration and nothing else, the others keeping their
\* order.
C8_UnsubscribeExact ==
    [][\A r \in 1..MaxCalls :
          (r <= Len(unsubs) /\ LaterDuplicate(r) /\ Unsubscribe(r))
          => \A e \in EventNames : Regs(events', e) = Without(Regs(events, e), r)]_vars

\* -------------------------------------------------- claims: EntityManager
TypeLists ==
    UNION {[1..n -> AllComps] : n \in 1..MaxTypes}

TagBucket(t) == IF t \in DOMAIN entitiesByTag THEN entitiesByTag[t] ELSE {}

\* C9 (as claimed): getEntitiesByTag(t) returns exactly the active entities
\* held by the manager that carry t, and entitiesByTag[t] is exactly the set
\* of held ids carrying t.
C9_TagIndexExact ==
    \A t \in Tags :
        /\ GetEntitiesByTag(t) =
               {id \in entities : ents[id].active /\ t \in ents[id].tags}
        /\ TagBucket(t) = {id \in entities : t \in ents[id].tags}

\* C10 (as claimed): getEntitiesWithComponents(types) returns exactly the
\* active entities held by the manager that have every listed component.
C10_ComponentQueryExact ==
    \A types \in TypeLists :
        GetEntitiesWithComponents(types) =
            {id \in entities :
                /\ ents[id].active
                /\ \A i \in 1..Len(types) : types[i] \in ents[id].components}

\* --------------------------------------- claims: scheduled destruction
\* The step is a scheduleDestroy(id) made by user code or by the manager's
\* entity:destroy listener.
SchedulesDestroy(id) ==
    \/ ScheduleDestroy(id)
    \/ /\ RunManagerListener
       /\ carried[Top.args].entity = id

\* C11: a scheduleDestroy(id), direct or delivered through entity:destroy,
\* adds id to the pending set and changes nothing else of the manager or of
\* the entities, so getEntity and the tag and component queries answer as
\* before; and no step other than processDestructions() or update() takes a
\* pending entity out of the manager or marks it destroyed.
C11_ScheduleDestroyOnlyMarks ==
    [][/\ \A id \in 1..MaxEntities :
             SchedulesDestroy(id) =>
                 /\ entitiesToDestroy' = entitiesToDestroy \cup {id}
                 /\ ents' = ents
                 /\ GetEntity(id)' = GetEntity(id)
                 /\ \A t \in Tags : GetEntitiesByTag(t)' = GetEntitiesByTag(t)
                 /\ \A c \in CompTypes :
                        GetEntitiesWithComponents(<<c>>)' =
                            GetEntitiesWithComponents(<<c>>)
       /\ \A id \in entitiesToDestroy \cap entities :
             ~ProcessDestructions =>
                 /\ GetEntity(id)' = id
                 /\ ~ents'[id].destroyed]_vars

\* An entity:destroy emitted by an observer has been delivered: its entity is
\* pending, still held by the manager, not destroyed, and still returned by a
\* tag query and a component query.
C11_Witness ==
    \E k \in 1..Len(carried) :
        LET id == carried[k].entity
        IN  /\ carried[k].event = "entity:destroy"
            /\ k > root
            /\ shifts[k] = 1
            /\ id \in entitiesToDestroy
            /\ GetEntity(id) = id
            /\ ~ents[id].destroyed
            /\ \E t \in Tags : id \in GetEntitiesByTag(t)
            /\ \E c \in CompTypes : id \in GetEntitiesWithComponents(<<c>>)

\* C12 (as claimed): processDestructions() (or update()) leaves every entity
\* that was pending and held without a trace: getEntity(id) is null, the
\* entity is marked destroyed, and no bucket of either index contains id.
C12_DestructionLeavesNoTrace ==
    [][ProcessDestructions =>
          \A id \in entitiesToDestroy \cap entities :
              /\ GetEntity(id)' = 0
              /\ ents'[id].destroyed
              /\ \A t \in DOMAIN entitiesByTag' : id \notin entitiesByTag'[t]
              /\ \A c \in DOMAIN entitiesByComponent' :
                     id \notin entitiesByComponent'[c]]_vars

\* ------------------------------------------- claims: entity:created order
\* C13: when a subscriber of entity:created is invoked, the entity the event
\* carries is held by the manager and is returned by getEntitiesByTag for
\* every tag, and by getEntitiesWithComponents for every component, it was
\* created with, whether the event was dispatched at once or waited in the
\* queue.
C13_IndexedWhenCreatedDelivered ==
    [][(InvokeHandler /\ Top.eventName = "entity:created") =>
          LET p == carried[Top.args]
          IN  /\ GetEntity(p.entity) = p.entity
              /\ \A t \in p.tags : p.entity \in GetEntitiesByTag(t)
              /\ \A c \in p.components :
                     p.entity \in GetEntitiesWithComponents(<<c>>)]_vars

\* An observer is running for an entity:created event that an observer
\* emitted during this drain, its entity having a tag and a component.
C13_Witness ==
    /\ stack # <<>>
    /\ Top.kind = "handler"
    /\ Top.eventName = "entity:created"
    /\ Top.args > root
    /\ carried[Top.args].tags # {}
    /\ carried[Top.args].components # {}

\* ------------------------------------------------ claims: Entity object
\* C14 (as claimed): on a destroyed entity, addComponent, removeComponent
\* and addTag leave the component map and the tag set as they were.
C14_DestroyedEntityFrozen ==
    [][(/\ entity.destroyed
        /\ \/ \E type \in DataTypes, a \in 1..MaxObjects :
                  ObjAddComponent(type, a)
           \/ \E type \in DataTypes : ObjRemoveComponent(type)
           \/ \E tag \in Tags : ObjAddTag(tag))
       => /\ entity'.components = entity.components
          /\ entity'.tags = entity.tags]_vars

\* C15 (as claimed): once destroyed, an entity stays destroyed and inactive
\* under every entity operation, and a further destroy() changes nothing.
C15_DestroyLatch ==
    [][entity.destroyed =>
          /\ entity'.destroyed
          /\ ~entity'.active
          /\ ObjDestroy => entity' = entity]_vars

\* C16: assigning to the field of an object that was passed to addComponent
\* does not change what getComponent returns for any type.
C16_AddComponentCopies ==
    [][(\E a \in 1..MaxObjects, v \in Values : AssignField(a, v)) =>
          \A type \in DOMAIN entity.components :
              GetComponent(entity', objs', type) =
                  GetComponent(entity, objs, type)]_vars

\* The entity has a component whose record differs from the object it was
\* copied from: the caller changed the object after addComponent.
C16_Witness ==
    \E type \in DOMAIN entity.components :
        /\ entity.components[type].src # 0
        /\ objs[entity.components[type].src] #
               GetComponent(entity, objs, type)

\* A serialized record that lacks the active field
WithoutActive(data) == [k \in DOMAIN data \ {"active"} |-> data[k]]

\* C17: for a non-destroyed entity e, deserialize(serialize(e)) has the id,
\* the component types and their contents, the tags (in the order of e's
\* Set) and the active value of e; and a record without an active field
\* deserializes as active.
C17_SerializeRoundTrip ==
    ~entity.destroyed =>
        LET d == Deserialize(Serialize(entity, objs))
        IN  /\ d.id = entity.id
            /\ DOMAIN d.components = DOMAIN entity.components
            /\ \A type \in DOMAIN entity.components :
                   GetComponent(d, objs, type) =
                       GetComponent(entity, objs, type)
            /\ d.tags = entity.tags
            /\ d.active = entity.active
            /\ ~d.destroyed
            /\ Deserialize(WithoutActive(Serialize(entity, objs))).active

\* A live, deactivated entity with two tags and two components of different
\* contents.
C17_Witness ==
    /\ ~entity.destroyed
    /\ ~entity.active
    /\ Len(entity.tags) = 2
    /\ DOMAIN entity.components = DataTypes
    /\ GetComponent(entity, objs, "health") # GetComponent(entity, objs, "power")

\* ------------------------------------------- claims: component queries
\* No entity's components were changed after createEntity: the entity:created
\* handler, the only code that edits components here, has added none.
ComponentsAsCreated ==
    \A id \in 1..Len(ents) : ents[id].components \subseteq QueryComps

\* C18: when every entity has the components it was created with,
\* getEntitiesWithComponents(types) returns, for every non-empty list of types
\* in every order and for every order of creation, exactly the active held
\* entities that have every listed type, and nothing when some listed type
\* is carried by no held entity.
C18_QueryExactAsCreated ==
    ComponentsAsCreated =>
        \A types \in TypeLists :
            /\ GetEntitiesWithComponents(types) =
                   {id \in entities :
                       /\ ents[id].active
                       /\ \A i \in 1..Len(types) :
                              types[i] \in ents[id].components}
            /\ (\E i \in 1..Len(types) :
                    \A id \in entities : types[i] \notin ents[id].components)
               => GetEntitiesWithComponents(types) = {}

\* Of two held entities only the one created last has both health and
\* power, and the query returns exactly it for both orders of the types.
C18_Witness ==
    /\ ComponentsAsCreated
    /\ entities = {1, 2}
    /\ ents[1].components = {"health"}
    /\ ents[2].components = {"health", "power"}
    /\ GetEntitiesWithComponents(<<"health", "power">>) = {2}
    /\ GetEntitiesWithComponents(<<"power", "health">>) = {2}

\* ---------------------------------------------------- claims: talents
\* The talent exists and its rank has reached maxRanks.
AtMaxRanks(treeName, talentName) ==
    /\ treeName \in DOMAIN TalentTrees
    /\ talentName \in DOMAIN TalentTrees[treeName]
    /\ RankOf(progression, treeName, talentName) >=
           TalentTrees[treeName][talentName].maxRanks

\* The talent exists and a talent of its tree that it requires is below the
\* required rank.
RequirementsNotMet(treeName, talentName) ==
    /\ treeName \in DOMAIN TalentTrees
    /\ talentName \in DOMAIN TalentTrees[treeName]
    /\ \E r \in 1..Len(TalentTrees[treeName][talentName].requires) :
           LET req == TalentTrees[treeName][talentName].requires[r]
           IN  RankOf(progression, treeName, req[1]) < ParseInt(req[Len(req)])

\* C19 (as claimed): spendTalentPoint never throws and never makes
\* talentPoints negative; without a talent point, at maxRanks or with
\* requirements not met it emits progression:error with a reason and no
\* progression:talent-learned, and leaves talentPoints and every rank as
\* they were.
C19_SpendTalentPointSafe ==
    [][\A treeName \in TreeNames, talentName \in TalentNames :
          SpendTalent(treeName, talentName) =>
              /\ talentCall'.result # "threw"
              /\ progression'.talentPoints >= 0
              /\ (\/ progression.talentPoints <= 0
                  \/ AtMaxRanks(treeName, talentName)
                  \/ RequirementsNotMet(treeName, talentName))
                 => /\ Len(talentCall'.emitted) = 1
                    /\ talentCall'.emitted[1] \in
                           {"progression:error No talent points available",
                            "progression:error Talent at max rank",
                            "progression:error Talent requirements not met"}
                    /\ progression'.talentPoints = progression.talentPoints
                    /\ \A t \in DOMAIN TalentTrees :
                           \A n \in DOMAIN TalentTrees[t] :
                               RankOf(progression', t, n) =
                                   RankOf(progression, t, n)]_vars

\* -------------------------------------------------- claims: inventory
\* The call cannot be served by an existing stack: the item is defined and
\* is not stackable, or has no stack yet, or its first stack lacks the room.
NeedsNewStack(itemId, quantity) ==
    /\ itemId \in DOMAIN itemDefinitions
    /\ \/ itemDefinitions[itemId].type \notin StackableTypes
       \/ FindStack(inventory.items, itemId) = 0
       \/ quantity > MaxStackSize -
              inventory.items[FindStack(inventory.items, itemId)].quantity

\* C20 (as claimed): addItem never makes the items list longer than maxSize,
\* and when a new stack is needed while the inventory holds maxSize stacks
\* it emits inventory:error 'Inventory full' and nothing else, and leaves
\* the items list as it was.
C20_AddItemRespectsCapacity ==
    [][\A itemId \in ItemIds, quantity \in Quantities :
          AddItemCall(itemId, quantity) =>
              /\ Len(inventory'.items) <= inventory'.maxSize
              /\ (/\ NeedsNewStack(itemId, quantity)
                  /\ Len(inventory.items) >= inventory.maxSize)
                 => /\ itemCall'.emitted = <<"inventory:error Inventory full">>
                    /\ inventory'.items = inventory.items]_vars

\* ------------------------------------------- claims: terminal destruction
\* C23 (as claimed): every entity in the primary map has destroyed = false,
\* and an entity that was removed (removeEntity is what marks an entity
\* destroyed here) is returned neither by getEntity nor by a tag or
\* component query, after any sequence of manager operations.
C23_DestructionTerminal ==
    /\ \A id \in entities : ~ents[id].destroyed
    /\ \A id \in 1..Len(ents) :
          ents[id].destroyed =>
              /\ GetEntity(id) = 0
              /\ \A t \in Tags : id \notin GetEntitiesByTag(t)
              /\ \A types \in TypeLists : id \notin GetEntitiesWithComponents(types)

\* ------------------------------------------- claims: addItem overflow
\* The item is stackable, has a stack, and quantity exceeds the room left
\* in that stack.
Overflows(itemId, quantity) ==
    /\ itemId \in DOMAIN itemDefinitions
    /\ itemDefinitions[itemId].type \in StackableTypes
    /\ FindStack(inventory.items, itemId) # 0
    /\ quantity > MaxStackSize -
           inventory.items[FindStack(inventory.items, itemId)].quantity

\* C30 (as claimed): addItem for a stackable item whose quantity exceeds the
\* room of the existing stack returns; the existing stack then holds
\* maxStackSize, and either the remainder sits in a new stack at the end of
\* the list or 'Inventory full' was reported and no stack was added.
C30_AddItemOverflowTerminates ==
    [][\A itemId \in ItemIds, quantity \in Quantities :
          (Overflows(itemId, quantity) /\ AddItemCall(itemId, quantity)) =>
              LET k == FindStack(inventory.items, itemId)
                  rest == quantity - (MaxStackSize - inventory.items[k].quantity)
                  n == Len(inventory.items)
              IN  /\ itemCall'.result = "returned"
                  /\ inventory'.items[k].quantity = MaxStackSize
                  /\ \/ /\ Len(inventory'.items) = n + 1
                        /\ inventory'.items[n + 1].itemId = itemId
                        /\ inventory'.items[n + 1].quantity = rest
                     \/ /\ Len(inventory'.items) = n
                        /\ n >= inventory.maxSize
                        /\ \E i \in 1..Len(itemCall'.emitted) :
                               itemCall'.emitted[i] =
                                   "inventory:error Inventory full"]_vars

\* ------------------------------------------------------ claims: clear()
\* C26: clear() leaves no subscription and an empty queue; an entry that was
\* pending when clear() was called (by the driver or by a running handler) is
\* never dispatched; and the bus goes on working: every entry emitted and
\* not cleared away is dispatched once, to exactly the handlers subscribed
\* when its dispatch begins.
C26_ClearWipesAll ==
    [][/\ Clear =>
             /\ \A e \in EventNames : Regs(events', e) = <<>>
             /\ eventQueue' = <<>>
       /\ \A a \in dropped' : shifts'[a] = 0
       /\ ProcessQueueShift =>
             /\ eventQueue[1].args \notin dropped
             /\ registered' = Regs(events, eventQueue[1].eventName)
       /\ (AtLoopHead /\ Top.args # 0) => invoked = registered
       /\ Idle' =>
             \A a \in 1..nEmits' : a \notin dropped' => shifts'[a] = 1]_vars

\* A handler called clear() while an entry was pending; that entry was never
\* dispatched, and a handler subscribed after the clear() is now running for
\* an entry emitted after it.
C26_Witness ==
    /\ dropped # {}
    /\ \A a \in dropped : shifts[a] = 0
    /\ stack # <<>>
    /\ Top.kind = "handler"
    /\ Top.handler.reg >= 1
    /\ \A a \in dropped : Top.args > a

\* ------------------------------------------------- claims: shared XP
\* C29 (as claimed): the cascade started by a member's XP gain terminates:
\* whenever the driver's emit has entered processQueue and every member of
\* the party has a progression component, processQueue eventually returns.
C29_XPCascadeTerminates ==
    (/\ xpProcessing
     /\ \A i \in 1..Len(PartyMembers) : PartyMembers[i] \in DOMAIN progressions)
    ~> ~xpProcessing

\* ------------------------------------------- claims: manager teardown
\* The handler objects of the manager subscribed to any event
ManagerHandlers(evts) ==
    {h \in UNION {Range(evts[e]) : e \in DOMAIN evts} : h = ManagerListener}

\* C25 (as claimed): destroy() leaves no handler of the manager subscribed,
\* and once destroy() has been called no dispatch invokes a handler of the
\* manager and nothing is added to the pending set.
C25_DestroyUnsubscribes ==
    [][/\ DestroyManager => ManagerHandlers(events') = {}
       /\ managerDestroyed =>
             /\ InvokeHandler =>
                    stack'[Len(stack')].handler # ManagerListener
             /\ entitiesToDestroy' \subseteq entitiesToDestroy]_vars

\* ------------------------------------------------- claims: the sweep
\* The emit() calls that announced the removal of id
DestroyedEvents(id) ==
    {k \in 1..Len(carried) :
        carried[k].event = "entity:destroyed" /\ carried[k].entity = id}

\* C21: entity:destroyed has been emitted exactly once for every entity that
\* was removed and never for an entity still held, however often its id was
\* scheduled or removed; and a removeEntity of an id that is not held
\* changes nothing of the manager and emits nothing.
C21_DestroyedEmittedOnce ==
    [][/\ \A id \in 1..MaxEntities :
             Cardinality(DestroyedEvents(id)') =
                 IF id \in entities' THEN 0 ELSE 1
       /\ \A id \in 1..MaxEntities :
             (/\ id \notin entities
              /\ \/ DirectRemove(id)
                 \/ SweepVisit /\ id \in sweep'.visited \ sweep.visited) =>
                 /\ emVars' = emVars
                 /\ entitiesToDestroy' = entitiesToDestroy
                 /\ nEmits' = nEmits
                 /\ carried' = carried]_vars

\* A sweep has visited an entity that the driver had removed directly before
\* the sweep, and has removed an entity for which an entity:destroy had been
\* delivered; each has exactly one entity:destroyed event.
C21_Witness ==
    /\ ~sweep.active
    /\ \E id \in sweep.visited :
          /\ DestroyedEvents(id) # {}
          /\ \A k \in DestroyedEvents(id) : k <= sweep.since
    /\ \E id \in sweep.visited, j \in 1..Len(carried) :
          /\ carried[j].event = "entity:destroy"
          /\ carried[j].entity = id
          /\ shifts[j] = 1
          /\ \E k \in DestroyedEvents(id) : k > sweep.since /\ k > j

\* C22: when update() emits entities:update, every entity its sweep visited
\* is out of the entity map and its entity:destroyed event was emitted, and
\* dispatched, before; and when entities:update is delivered the entity map
\* it carries (the manager's live map) holds none of the entities swept.
C22_DestroyedBeforeUpdate ==
    [][/\ (SweepEnd /\ sweep.update) =>
             \A id \in sweep.visited :
                 /\ id \notin entities'
                 /\ \E k \in DestroyedEvents(id) :
                        k < nEmits' /\ shifts[k] = 1
       /\ (InvokeHandler /\ Top.eventName = "entities:update") =>
             /\ entities \cap sweep.visited = {}
             /\ \A id \in sweep.visited :
                    \A k \in DestroyedEvents(id) :
                        k < Top.args /\ shifts[k] = 1]_vars

\* The observer of entities:update is running after a sweep that removed
\* two entities, the second scheduled by the observer of the first's
\* entity:destroyed.
C22_Witness ==
    /\ stack # <<>>
    /\ Top.kind = "handler"
    /\ Top.eventName = "entities:update"
    /\ Cardinality(sweep.visited) >= 2
    /\ \A id \in sweep.visited : \E k \in DestroyedEvents(id) : k > sweep.since

\* C24: no id leaves the pending set while its entity is held, and when
\* processDestructions() or update() clears the set every id scheduled
\* before or during the sweep has had its entity removed.
C24_ScheduledAreRemoved ==
    [][/\ \A id \in entitiesToDestroy :
             id \notin entitiesToDestroy' => id \notin entities'
       /\ SweepEnd =>
             /\ entitiesToDestroy' = {}
             /\ \A id \in entitiesToDestroy :
                    id \notin entities' /\ ents'[id].destroyed]_vars

\* A sweep is over that removed an entity which the observer of another
\* entity's entity:destroyed had scheduled, through entity:destroy, while
\* the sweep was running.
C24_Witness ==
    /\ ~sweep.active
    /\ entitiesToDestroy = {}
    /\ \E id1, id2 \in sweep.visited, j \in 1..Len(carried) :
          /\ id1 # id2
          /\ carried[j].event = "entity:destroy"
          /\ carried[j].entity = id2
          /\ \E k1 \in DestroyedEvents(id1), k2 \in DestroyedEvents(id2) :
                 sweep.since < k1 /\ k1 < j /\ j < k2

\* --------------------------------------------- claims: combat start timer
\* C27 (as claimed): when the start-delay timer of a combat fires, the combat
\* becomes active and combat:active is emitted if that combat is still the
\* one registered for its attacker; otherwise (the combat has ended, whether
\* or not the attacker is in a new combat) nothing changes and nothing is
\* emitted.
C27_TimerOnlyForItsCombat ==
    [][\A t \in timers :
          TimerFires(t) =>
              IF /\ t.attackerId \in DOMAIN activeCombats
                 /\ activeCombats[t.attackerId] = t.combat
              THEN /\ combats'[t.combat].state = "active"
                   /\ Len(combatCall'.emitted) = 1
                   /\ combatCall'.emitted[1].event = "combat:active"
              ELSE /\ combats' = combats
                   /\ combatCall'.emitted = <<>>]_vars

\* ------------------------------------------------- claims: combat victory
\* The combat events of a declared victory that a running handler is
\* looking at
VictoryHandled ==
    {stack[i].args : i \in {j \in 1..Len(stack) :
        /\ stack[j].kind = "handler"
        /\ carried[stack[j].args].event \in {"combat:victory", "combat:ended"}
        /\ carried[stack[j].args].result = "victory"}}

\* The losers of the victories declared so far
Losers ==
    {carried[k].defenderId : k \in {j \in 1..Len(carried) :
        carried[j].event = "combat:victory"}}

\* C28: a victory only schedules the loser.  While a handler of the
\* victory's combat:victory or combat:ended event runs, getEntity still
\* returns the loser, and during combat:ended the loser is pending in
\* entitiesToDestroy; the loser leaves the entity map only in a removeEntity
\* made by the sweep of a later update() (or in a removeEntity the driver
\* calls itself), never in checkCombatEnd or in a handler.
C28_VictoryDefersDestruction ==
    /\ [](\A k \in VictoryHandled :
             /\ GetEntity(carried[k].defenderId) = carried[k].defenderId
             /\ carried[k].event = "combat:ended"
                    => carried[k].defenderId \in entitiesToDestroy)
    /\ [][\A id \in Losers :
             (id \in entities /\ id \notin entities') =>
                 \/ sweep.active /\ sweep.update /\ id \in sweep'.visited
                 \/ DriverFree /\ Ending = {}]_vars

\* A handler of the combat:ended event of a victory runs while the loser is
\* scheduled and still held.
C28_Witness ==
    \E k \in VictoryHandled :
        /\ carried[k].event = "combat:ended"
        /\ carried[k].defenderId \in entitiesToDestroy \cap entities

\* ------------------------------------------------- claims: combat records
\* C31 (as claimed): activeCombats and combatPairs have the same keys; for
\* every key e the combat registered for e has e as its attacker or its
\* defender, combatPairs[e] is the other participant of that combat, and
\* combatPairs[combatPairs[e]] = e.
C31_CombatMapsConsistent ==
    /\ DOMAIN activeCombats = DOMAIN combatPairs
    /\ \A e \in DOMAIN activeCombats :
          LET combatData == combats[activeCombats[e]]
          IN  /\ e \in {combatData.attackerId, combatData.defenderId}
              /\ {e, combatPairs[e]} =
                     {combatData.attackerId, combatData.defenderId}
              /\ combatPairs[e] \in DOMAIN combatPairs
              /\ combatPairs[combatPairs[e]] = e

\* ------------------------------------------------ claims: combat lifecycle
\* preparing -> active -> ending as an order
StateRank(state) ==
    IF state = "preparing" THEN 1 ELSE IF state = "active" THEN 2 ELSE 3

\* The combats some entity is registered in
RegisteredCombats(map) == {map[id] : id \in DOMAIN map}

\* The combat:ended events of the last call
EndedEvents ==
    SelectSeq(combatCall.emitted, LAMBDA e : e.event = "combat:ended")

\* C32: the state of a combat never moves back in the order preparing,
\* active, ending; a new combat is preparing without a result; the result
\* changes exactly in the step in which the combat enters ending and is then
\* victory, defeat or fled; a combat that is no longer registered is never
\* registered again, and every combat:ended a call emits is for a combat
\* that was registered before the call and is not registered after it, no
\* two of them for the same combat, so that no combat gets combat:ended
\* twice; after the call that emitted it neither participant is a key of
\* activeCombats or combatPairs and no held participant has an inCombat
\* component.
C32_CombatLifecycle ==
    [][/\ \A c \in 1..Len(combats) :
             /\ StateRank(combats'[c].state) >= StateRank(combats[c].state)
             /\ (combats'[c].result # combats[c].result)
                    <=> /\ combats'[c].state = "ending"
                        /\ combats[c].state # "ending"
             /\ combats'[c].state = "ending"
                    => combats'[c].result \in {"victory", "defeat", "fled"}
             /\ c \notin RegisteredCombats(activeCombats)
                    => c \notin RegisteredCombats(activeCombats')
       /\ \A c \in (Len(combats) + 1)..Len(combats') :
             /\ combats'[c].state = "preparing"
             /\ combats'[c].result = "null"
       /\ \A k \in 1..Len(EndedEvents') :
             LET e == EndedEvents'[k]
             IN  /\ \E c \in RegisteredCombats(activeCombats) :
                        /\ combats'[c].attackerId = e.attackerId
                        /\ combats'[c].defenderId = e.defenderId
                        /\ combats'[c].result = e.result
                        /\ c \notin RegisteredCombats(activeCombats')
                 /\ \A j \in 1..Len(EndedEvents') :
                        j # k => <<EndedEvents'[j].attackerId,
                                   EndedEvents'[j].defenderId>>
                                 # <<e.attackerId, e.defenderId>>
                 /\ \A id \in {e.attackerId, e.defenderId} :
                        /\ id \notin DOMAIN activeCombats'
                        /\ id \notin DOMAIN combatPairs'
                        /\ id \in entities'
                               => "inCombat" \notin ents'[id].components]_vars

\* One update() has just decided two combats that shared their defender:
\* each got its combat:tug-update, its outcome and its combat:ended, both
\* are in the state ending with a result, and no participant is registered.
C32_Witness ==
    /\ Len(combats) = 2
    /\ Len(EndedEvents) = 2
    /\ combatCall.emitted[1].event = "combat:tug-update"
    /\ \A c \in 1..2 : /\ combats[c].state = "ending"
                       /\ combats[c].result \in {"victory", "defeat"}
    /\ combats[1].defenderId = combats[2].defenderId
    /\ activeCombats = NoMap
    /\ combatPairs = NoMap

\* ------------------------------------------------------------ claims: pets
\* C33 (as claimed): no owner owns more than maxPetsPerPlayer pets.
C33_PetLimit ==
    \A o \in DOMAIN petOwnership :
        Cardinality(petOwnership[o]) <= MaxPetsPerPlayer

\* --------------------------------------------------------- claims: parties
\* C34 (as claimed): every entity is a member of at most one party,
\* entityParties[e] = p exactly when e is a member of parties[p], no party
\* has more than maxPartySize members, and the leader of every party is one
\* of its members.
C34_PartyMembership ==
    /\ \A e \in 1..(MaxEntities + 1) :
          /\ Cardinality({p \in DOMAIN parties : IsMember(parties[p], e)}) <= 1
          /\ \A p \in 1..MaxPartyTimes :
                (e \in DOMAIN entityParties /\ entityParties[e] = p)
                    <=> (p \in DOMAIN parties /\ IsMember(parties[p], e))
    /\ \A p \in DOMAIN parties :
          /\ Len(parties[p].members) <= MaxPartySize
          /\ IsMember(parties[p], parties[p].leaderId)

\* ------------------------------------------------- claims: requirements
\* The requirement a talent declares, as the claim reads it: the talent
\* named before the colon, in the tree of the talent, at the rank after it
RequirementsReached(prog, treeName, talentName) ==
    LET requires == TalentTrees[treeName][talentName].requires
    IN  \A r \in 1..Len(requires) :
            RankOf(prog, treeName, requires[r][1]) >= ParseInt(requires[r][3])

\* C35 (as claimed): spendTalentPoint for a talent that declares
\* requirements, with a talent point available and the talent below its
\* maximal rank, learns the talent when the required talent of its tree has
\* the required rank, and ends with 'Talent requirements not met' otherwise.
C35_RequirementsDecide ==
    [][\A treeName \in DOMAIN TalentTrees :
          \A talentName \in DOMAIN TalentTrees[treeName] \cap TalentNames :
              (/\ SpendTalent(treeName, talentName)
               /\ TalentTrees[treeName][talentName].requires # <<>>
               /\ progression.talentPoints > 0
               /\ RankOf(progression, treeName, talentName)
                      < TalentTrees[treeName][talentName].maxRanks)
              => IF RequirementsReached(progression, treeName, talentName)
                 THEN /\ RankOf(progression', treeName, talentName) =
                             RankOf(progression, treeName, talentName) + 1
                      /\ progression'.talentPoints = progression.talentPoints - 1
                 ELSE talentCall'.emitted =
                          <<"progression:error Talent requirements not met">>]_vars

\* ------------------------------------------------------- claims: equipment
\* The call ended with an inventory:error
EndedWithError(call) ==
    /\ call.emitted # <<>>
    /\ call.emitted[Len(call.emitted)] \in
           {"inventory:error Item cannot be equipped",
            "inventory:error Item cannot be equipped in slot",
            "inventory:error Item not in inventory"}

\* C36 (as claimed): an equipItem call that ends with an inventory:error
\* leaves the equipment slots and the equipped flags of the items as they
\* were.
C36_FailedEquipChangesNothing ==
    [][\A itemId \in EquipIds, slot \in Slots :
          (EquipItemCall(itemId, slot) /\ EndedWithError(itemCall'))
              => /\ inventory'.equipment = inventory.equipment
                 /\ inventory'.items = inventory.items]_vars

\* ---------------------------------------------------- claims: game states
\* C37 (as claimed): in a step of a changeState, pushState or popState call
\* in which a changeState call in progress does not move, currentState and
\* the state stack stay as they are.
C37_TransitionIsExclusive ==
    [][(/\ ~Reset
        /\ \E i \in 1..Len(gsmTasks) :
              /\ gsmTasks[i].op = "change"
              /\ Suspended(gsmTasks[i])
              /\ gsmTasks'[i] = gsmTasks[i])
       => /\ currentState' = currentState
          /\ stateStack' = stateStack]_vars

\* C38 (as claimed): whenever transitioning is set, it is cleared again.
C38_TransitioningEnds == transitioning ~> ~transitioning

\* -------------------------------------------------- claims: combat duration
\* C39 (as claimed): a combat decided as a victory has spent at least its
\* combatDuration in the active state and its tugPosition is above 0; a
\* combat whose tugPosition is 0 when it is decided is a defeat.
C39_VictoryAfterDuration ==
    duel.state = "ending" =>
        /\ duel.result = "victory" =>
               /\ duel.decidedAt - duel.activeSince >= CombatDuration(duel.tier)
               /\ duel.tugPosition > 0
        /\ duel.tugPosition = 0 => duel.result = "defeat"

\* ------------------------------------------------------ claims: experience
\* C40: after addExperience with a non-negative amount, experience is at
\* least 0 and below experienceToNext, experienceToNext is 100 times the
\* square of level, level has not decreased, and statPoints rose by 3 and
\* talentPoints by 1 for each level gained.
C40_AddExperienceKeepsShape ==
    [][\A i \in 1..Len(PartyMembers), amount \in XPGains :
          AddExperienceCall(PartyMembers[i], amount) =>
              LET before == progressions[PartyMembers[i]]
                  after == progressions'[PartyMembers[i]]
                  gained == after.level - before.level
              IN  /\ after.experience >= 0
                  /\ after.experience < after.experienceToNext
                  /\ after.experienceToNext = 100 * after.level * after.level
                  /\ gained >= 0
                  /\ after.statPoints = before.statPoints + (3 * gained)
                  /\ after.talentPoints = before.talentPoints + gained]_vars

\* A member that had spent a stat point and a talent point has just been
\* taken past level 2 by a call: its level-up event follows the
\* talents-updated event of updateDerivedStats.
C40_Witness ==
    \E i \in 1..Len(PartyMembers) :
        /\ Len(xpQueue) = 3
        /\ xpQueue[1].eventName = "progression:talents-updated"
        /\ xpQueue[2].eventName = "progression:level-up"
        /\ xpQueue[2].entityId = PartyMembers[i]
        /\ progressions[PartyMembers[i]].level >= 3
        /\ progressions[PartyMembers[i]].stats.strength >= 2
        /\ RankOf(progressions[PartyMembers[i]], "strength", "ironGrip") >= 1

====
